---- MODULE Spec2Model ----
(***************************************************************************)
(* A model of the yogurt runtime's ABI bridge: the bump allocator with     *)
(* AssemblyScript managed headers (allocator.rs), the GC hook exports      *)
(* (lib.rs), the scalar and composite codecs (asc.rs, store.rs,            *)
(* data_source.rs, ethereum.rs) and the handler wrapper (yogurt-macros).   *)
(*                                                                         *)
(* A u32 is the pair <<hi, lo>> of its 16-bit halves, so that arithmetic   *)
(* keeps the 32-bit width of the WASM target (values up to 2^32 - 1).      *)
(* Linear memory is a sparse map from byte address to byte; a byte never   *)
(* written reads as 0 (WASM memory is zero-initialised).                   *)
(***************************************************************************)
EXTENDS Integers, Sequences, FiniteSets, TLC

\* -------------------------------------------------------------------------
\* Bounds of the model
\* -------------------------------------------------------------------------

\* Allocations (asc_alloc / __new calls) in one run of the allocator model.
MaxAllocs == 3

\* -------------------------------------------------------------------------
\* 32-bit unsigned arithmetic on <<hi, lo>> pairs
\* -------------------------------------------------------------------------

Half == 65536

U(n) == <<n \div Half, n % Half>>

Add32(a, b) == <<(a[1] + b[1] + ((a[2] + b[2]) \div Half)) % Half, (a[2] + b[2]) % Half>>

Ovf32(a, b) == a[1] + b[1] + ((a[2] + b[2]) \div Half) >= Half

Lt32(a, b) == a[1] < b[1] \/ (a[1] = b[1] /\ a[2] < b[2])

Le32(a, b) == a = b \/ Lt32(a, b)

\* a - b, wrapping
Sub32(a, b) ==
    IF a[2] >= b[2] THEN <<(a[1] - b[1]) % Half, a[2] - b[2]>>
    ELSE <<(a[1] - b[1] - 1) % Half, a[2] + Half - b[2]>>

\* x & !7
AndNot7(a) == <<a[1], a[2] - (a[2] % 8)>>

\* The four little-endian bytes of a u32, and back.
Bytes32(v) == <<v[2] % 256, v[2] \div 256, v[1] % 256, v[1] \div 256>>

FromBytes32(b) == <<b[3] + 256 * b[4], b[1] + 256 * b[2]>>

\* -------------------------------------------------------------------------
\* Program constants
\* -------------------------------------------------------------------------

HEADER_SIZE == 20

class_id_OBJECT == 0
class_id_ARRAY_BUFFER == 1
class_id_STRING == 2
class_id_ARRAY_PTR == 1000
class_id_TYPED_MAP == 1001
class_id_TYPED_MAP_ENTRY == 1002
class_id_STORE_VALUE == 1003
class_id_ARRAY_STORE_VALUE == 1004

VARIABLES
    heap_base_sym,      \* the linker's __heap_base symbol
    overflow_checks,    \* build profile: debug (checked +) or release (wrapping +)
    align_checks,       \* the build panics on a misaligned raw-pointer dereference
    max_pages,          \* the host's limit on memory.grow
    HEAP_PTR,           \* static HEAP_PTR: AtomicU32
    HEAP_BASE,          \* static HEAP_BASE: AtomicU32
    memory_pages,       \* core::arch::wasm32::memory_size(0)
    mem,                \* linear memory: byte address -> byte
    trap,               \* "none", or why the instance trapped
    allocs,             \* every pointer returned so far, in order
    ctl,                \* who runs: "host", "module", "import" (host, inside an import)
    imports,            \* the host imports the module has called, with their arguments
    store,              \* MockContext::store of a native test: type -> id -> EntityData
    last                \* the last call across the module boundary and its result

vars == <<heap_base_sym, overflow_checks, align_checks, max_pages, HEAP_PTR, HEAP_BASE,
          memory_pages, mem, trap, allocs, ctl, imports, store, last>>

\* What is outside the instance: the build, the host, the native test context.
env == <<heap_base_sym, overflow_checks, align_checks, max_pages, store>>

\* -------------------------------------------------------------------------
\* Linear memory
\* -------------------------------------------------------------------------

\* The machine state the runtime's functions read and write, as one record.
Cur ==
    [HEAP_PTR |-> HEAP_PTR, HEAP_BASE |-> HEAP_BASE, pages |-> memory_pages,
     mem |-> mem, trap |-> trap, allocs |-> allocs, ret |-> <<0, 0>>]

\* addr + n <= pages * 65536: the n bytes at addr are inside linear memory.
InBounds(pages, addr, n) ==
    LET e == addr[2] + n
    IN  addr[1] + (e \div Half) < pages
        \/ (addr[1] + (e \div Half) = pages /\ e % Half = 0)

Rd8(m, addr) == IF addr \in DOMAIN m THEN m[addr] ELSE 0

Rd32(m, addr) ==
    FromBytes32(<<Rd8(m, addr), Rd8(m, Add32(addr, U(1))),
                  Rd8(m, Add32(addr, U(2))), Rd8(m, Add32(addr, U(3)))>>)

\* Memory m with the bytes bs stored from addr on.
WrBytes(m, addr, bs) ==
    LET at == {Add32(addr, U(i - 1)) : i \in 1..Len(bs)}
        idx(a) == CHOOSE i \in 1..Len(bs) : Add32(addr, U(i - 1)) = a
    IN  [a \in at |-> bs[idx(a)]] @@ m

Wr32(m, addr, v) == WrBytes(m, addr, Bytes32(v))

RECURSIVE Flatten(_)
Flatten(ws) == IF ws = <<>> THEN <<>> ELSE Bytes32(Head(ws)) \o Flatten(Tail(ws))

\* -------------------------------------------------------------------------
\* allocator.rs
\* -------------------------------------------------------------------------

\* ensure_heap_initialised: the first call sets both statics to __heap_base.
ensure_heap_initialised(st) ==
    IF st.HEAP_BASE = U(0)
    THEN [st EXCEPT !.HEAP_BASE = heap_base_sym, !.HEAP_PTR = heap_base_sym]
    ELSE st

\* let total_size = HEADER_SIZE + size;
total_size(size) == Add32(U(HEADER_SIZE), size)

\* Mutant of aligned_size: rounds down instead of up.
aligned_size_floor(total) == AndNot7(total)

\* let aligned_size = (total_size + 7) & !7;
aligned_size(total) == AndNot7(Add32(total, U(7)))

\* Mutant of pages_needed: does not round up to a whole page.
pages_needed_floor(end) == end[1]

\* let pages_needed = (end + 65535) / 65536;
pages_needed(end) == Add32(end, U(65535))[1]

\* Mutant of header_words: stores the size rounded up to 8 as rtSize.
header_words_rounded(class_id, size) ==
    <<U(0), U(0), U(0), class_id, AndNot7(Add32(size, U(7)))>>

\* The five header words written at base: mmInfo, gcInfo, gcInfo2, rtId, rtSize.
header_words(class_id, size) == <<U(0), U(0), U(0), class_id, size>>

\* A `+` of the source overflows: a panic when the build checks overflow.
Panics(a, b) == overflow_checks /\ Ovf32(a, b)

\* asc_alloc(size, class_id) run on the machine state st by `who`; the result is
\* the machine state after it, with the returned pointer in ret (and in allocs),
\* or with trap set and no pointer returned.
asc_alloc(st, size, class_id, who) ==
    IF st.trap # "none" THEN st ELSE
    LET s0      == ensure_heap_initialised(st)
        total   == total_size(size)
        aligned == aligned_size(total)
        base    == s0.HEAP_PTR
        \* HEAP_PTR.fetch_add(aligned_size): wraps in every build
        s1      == [s0 EXCEPT !.HEAP_PTR = Add32(base, aligned)]
        end     == Add32(base, aligned)
        needed  == pages_needed(end)
        grow    == needed - s1.pages
        s2      == IF needed > s1.pages THEN [s1 EXCEPT !.pages = needed] ELSE s1
        ptr     == Add32(base, U(HEADER_SIZE))
    IN  IF Panics(U(HEADER_SIZE), size) \/ Panics(total, U(7))
        THEN [s0 EXCEPT !.trap = "panic"]
        ELSE IF Panics(base, aligned) \/ Panics(end, U(65535))
        THEN [s1 EXCEPT !.trap = "panic"]
        ELSE IF needed > s1.pages /\ s1.pages + grow > max_pages
        THEN [s1 EXCEPT !.trap = "grow"]
        ELSE IF ~InBounds(s2.pages, base, HEADER_SIZE)
        THEN [s2 EXCEPT !.trap = "oob"]
        ELSE [s2 EXCEPT
                !.mem = WrBytes(s2.mem, base, Flatten(header_words(class_id, size))),
                !.ret = ptr,
                !.allocs = Append(s2.allocs,
                    [ptr |-> ptr, size |-> size, class_id |-> class_id, who |-> who,
                     base |-> base, end |-> s1.HEAP_PTR])]

\* read_rt_id / read_rt_size
read_rt_id(m, ptr) == Rd32(m, Sub32(ptr, U(8)))

\* Mutant of read_rt_size: the size rounded up to the allocator's multiple of 8.
read_rt_size_rounded(m, ptr) == AndNot7(Add32(Rd32(m, Sub32(ptr, U(4))), U(7)))

read_rt_size(m, ptr) == Rd32(m, Sub32(ptr, U(4)))

\* The machine state st becomes the next state.
Commit(st) ==
    /\ HEAP_PTR' = st.HEAP_PTR
    /\ HEAP_BASE' = st.HEAP_BASE
    /\ memory_pages' = st.pages
    /\ mem' = st.mem
    /\ trap' = st.trap
    /\ allocs' = st.allocs

NoPtr == <<>>

Result(st) == IF st.trap = "none" THEN st.ret ELSE NoPtr

\* -------------------------------------------------------------------------
\* The allocator model: the host and the module take turns at the import
\* boundary; each may allocate while it runs.
\* -------------------------------------------------------------------------

\* The (size, class_id) pairs asked for. 2^32 - 44 and 2^32 - 20 are what __new
\* receives for the i32 sizes -44 and -20.
Requests ==
    {<<U(13), U(class_id_STRING)>>, <<U(200000), U(class_id_OBJECT)>>,
     <<<<65535, 65492>>, U(class_id_ARRAY_BUFFER)>>,
     <<<<65535, 65516>>, U(class_id_OBJECT)>>}

\* __heap_base as wasm-ld places it (16-byte aligned, after data and stack).
HeapBases == {U(1024), U(1048576)}

\* The initial memory covers everything below __heap_base.
InitialPages(b) == IF b[2] = 0 THEN b[1] ELSE b[1] + 1

\* The host's limit on the instance's memory, in pages: a small one for the
\* small module, the WASM maximum for the other.
HostLimit(b) == IF b = U(1024) THEN 4 ELSE 65536

\* Dereferencing a misaligned raw pointer is undefined behaviour: a release
\* build stores or loads unaligned, a debug build of a toolchain that checks
\* alignment panics, a debug build of an older toolchain does not.
AlignChecks(debug) == IF debug THEN BOOLEAN ELSE {FALSE}

Init ==
    /\ heap_base_sym \in HeapBases
    /\ overflow_checks \in BOOLEAN
    /\ align_checks \in AlignChecks(overflow_checks)
    /\ max_pages = HostLimit(heap_base_sym)
    /\ HEAP_PTR = U(0)
    /\ HEAP_BASE = U(0)
    /\ memory_pages = InitialPages(heap_base_sym)
    /\ mem = << >>
    /\ trap = "none"
    /\ allocs = << >>
    /\ ctl = "host"
    /\ imports = << >>
    /\ store = << >>
    /\ last = [op |-> "none", arg |-> NoPtr, ret |-> NoPtr]

Live == trap = "none"

\* The module's own code calls asc_alloc.
AscAlloc ==
    /\ Live /\ ctl = "module" /\ Len(allocs) < MaxAllocs
    /\ \E rq \in Requests :
         LET st == asc_alloc(Cur, rq[1], rq[2], "module")
         IN  /\ Commit(st)
             /\ last' = [op |-> "asc_alloc", arg |-> rq, ret |-> Result(st)]
    /\ UNCHANGED <<env, imports, ctl>>

\* The host calls the export __new(size, class_id), before a handler or from
\* inside an import the module called.
__new ==
    /\ Live /\ ctl \in {"host", "import"} /\ Len(allocs) < MaxAllocs
    /\ \E rq \in Requests :
         LET st == asc_alloc(Cur, rq[1], rq[2], "host")
         IN  /\ Commit(st)
             /\ last' = [op |-> "__new", arg |-> rq, ret |-> Result(st)]
    /\ UNCHANGED <<env, imports, ctl>>

\* Pointers the host passes to the GC hooks: the newest object, or null.
HookPtrs == IF allocs = << >> THEN {U(0)} ELSE {allocs[Len(allocs)].ptr}

\* Mutant of pin_result: returns the address of the header.
pin_result_header(ptr) == Sub32(ptr, U(HEADER_SIZE))

\* __pin(ptr) -> ptr
pin_result(ptr) == ptr

__pin ==
    /\ Live /\ ctl \in {"host", "import"}
    /\ \E ptr \in HookPtrs :
         last' = [op |-> "__pin", arg |-> ptr, ret |-> pin_result(ptr)]
    /\ UNCHANGED <<env, imports, HEAP_PTR, HEAP_BASE, memory_pages, mem, trap, allocs, ctl>>

__unpin ==
    /\ Live /\ ctl \in {"host", "import"}
    /\ \E ptr \in HookPtrs :
         last' = [op |-> "__unpin", arg |-> ptr, ret |-> NoPtr]
    /\ UNCHANGED <<env, imports, HEAP_PTR, HEAP_BASE, memory_pages, mem, trap, allocs, ctl>>

__collect ==
    /\ Live /\ ctl \in {"host", "import"}
    /\ last' = [op |-> "__collect", arg |-> NoPtr, ret |-> NoPtr]
    /\ UNCHANGED <<env, imports, HEAP_PTR, HEAP_BASE, memory_pages, mem, trap, allocs, ctl>>

\* The host calls a handler export: the module runs.
HandlerEnter ==
    /\ Live /\ ctl = "host"
    /\ ctl' = "module"
    /\ last' = [op |-> "handler", arg |-> NoPtr, ret |-> NoPtr]
    /\ UNCHANGED <<env, imports, HEAP_PTR, HEAP_BASE, memory_pages, mem, trap, allocs>>

\* The module calls an import: it is suspended until the host returns.
ImportCall ==
    /\ Live /\ ctl = "module"
    /\ ctl' = "import"
    /\ last' = [op |-> "import", arg |-> NoPtr, ret |-> NoPtr]
    /\ UNCHANGED <<env, imports, HEAP_PTR, HEAP_BASE, memory_pages, mem, trap, allocs>>

ImportReturn ==
    /\ Live /\ ctl = "import"
    /\ ctl' = "module"
    /\ last' = [op |-> "import_return", arg |-> NoPtr, ret |-> NoPtr]
    /\ UNCHANGED <<env, imports, HEAP_PTR, HEAP_BASE, memory_pages, mem, trap, allocs>>

\* The handler returns to the host.
HandlerReturn ==
    /\ Live /\ ctl = "module"
    /\ ctl' = "host"
    /\ last' = [op |-> "handler_return", arg |-> NoPtr, ret |-> NoPtr]
    /\ UNCHANGED <<env, imports, HEAP_PTR, HEAP_BASE, memory_pages, mem, trap, allocs>>

Next ==
    \/ AscAlloc
    \/ __new
    \/ __pin
    \/ __unpin
    \/ __collect
    \/ HandlerEnter
    \/ ImportCall
    \/ ImportReturn
    \/ HandlerReturn

Spec == Init /\ [][Next]_vars

\* -------------------------------------------------------------------------
\* Claims about the allocator and the GC hooks
\* -------------------------------------------------------------------------

IsAlloc(op) == op \in {"asc_alloc", "__new"}

\* C1: when asc_alloc or __new returns p, the five header words at p-20, p-16,
\* p-12, p-8, p-4 are 0, 0, 0, class_id, size, with size the requested size
\* (not the size rounded up to 8).
C1_HeaderAtReturn ==
    (IsAlloc(last.op) /\ last.ret # NoPtr) =>
        /\ Rd32(mem, Sub32(last.ret, U(20))) = U(0)
        /\ Rd32(mem, Sub32(last.ret, U(16))) = U(0)
        /\ Rd32(mem, Sub32(last.ret, U(12))) = U(0)
        /\ Rd32(mem, Sub32(last.ret, U(8))) = last.arg[2]
        /\ Rd32(mem, Sub32(last.ret, U(4))) = last.arg[1]

\* __new has returned the pointer of an object whose size is not a multiple of 8.
C1_Witness ==
    /\ last.op = "__new" /\ last.ret # NoPtr
    /\ last.arg = <<U(13), U(class_id_STRING)>>
    /\ Len(allocs) = 2

\* C2: every payload pointer returned by asc_alloc / __new is a multiple of 8.
C2_PayloadAligned8 ==
    \A i \in DOMAIN allocs : allocs[i].ptr[2] % 8 = 0

\* C3: the heap cursor never decreases and no address is returned twice.
C3_MonotonicAndDistinct ==
    [][/\ Le32(HEAP_PTR, HEAP_PTR')
       /\ \A i, j \in DOMAIN allocs' : i # j => allocs'[i].ptr # allocs'[j].ptr]_vars

\* An allocation in which no 32-bit sum wrapped.
NoWrap(a) ==
    /\ ~Ovf32(U(HEADER_SIZE), a.size)
    /\ ~Ovf32(total_size(a.size), U(7))
    /\ ~Ovf32(a.base, aligned_size(total_size(a.size)))

\* The object's region [p-20, p+size) ends at or before the other's begins.
Before(a, b) == Le32(Add32(a.ptr, a.size), Sub32(b.ptr, U(HEADER_SIZE)))

HeaderIntact(a) ==
    \A k \in 1..5 :
        Rd32(mem, Add32(a.base, U(4 * (k - 1)))) = header_words(a.class_id, a.size)[k]

\* C4: with the host calling __new while the module is suspended in an import,
\* and no 32-bit wrap, the regions [p-20, p+size) of all host and module
\* objects are pairwise disjoint and every returned object's header is written.
C4_Reentrancy ==
    (\A i \in DOMAIN allocs : NoWrap(allocs[i])) =>
        /\ \A i, j \in DOMAIN allocs :
              i < j => Before(allocs[i], allocs[j])
        /\ \A i \in DOMAIN allocs : HeaderIntact(allocs[i])

\* The module allocated, the host allocated from inside an import, the module
\* allocated again.
C4_Witness ==
    /\ Len(allocs) = 3
    /\ allocs[1].who = "module" /\ allocs[2].who = "host" /\ allocs[3].who = "module"
    /\ \A i \in DOMAIN allocs : NoWrap(allocs[i])

\* pages * 65536 >= addr
Covers(pages, addr) == addr[1] < pages \/ (addr[1] = pages /\ addr[2] = 0)

IsHook(op) == op \in {"__pin", "__unpin", "__collect"}

\* C6: __pin returns its argument, and __pin, __unpin and __collect leave the
\* heap cursor, the heap base, the memory size and the memory unchanged.
C6_HooksAreNoOps ==
    [][IsHook(last'.op) =>
        /\ UNCHANGED <<HEAP_PTR, HEAP_BASE, memory_pages, mem>>
        /\ (last'.op = "__pin" => last'.ret = last'.arg)]_vars

\* __pin was called on a live object after an allocation.
C6_Witness ==
    /\ last.op = "__pin" /\ last.arg # U(0) /\ last.ret = last.arg
    /\ Len(allocs) = 2

\* -------------------------------------------------------------------------
\* Strings, bytes and store values written to linear memory
\* (asc.rs, store.rs, data_source.rs)
\* -------------------------------------------------------------------------

\* A trap ends the instance: the rest of the call does nothing.
Trapped(st) == st.trap # "none"

\* The value of a step that has one outcome. A call's steps are chained as
\* Only({next(a) : a \in {step}}): the step runs once, then what follows it.
Only(S) == CHOOSE x \in S : TRUE

\* A store of the bytes bs at addr; out of bounds traps.
Store(st, addr, bs) ==
    IF Trapped(st) THEN st
    ELSE IF ~InBounds(st.pages, addr, Len(bs)) THEN [st EXCEPT !.trap = "oob"]
    ELSE [st EXCEPT !.mem = WrBytes(st.mem, addr, bs)]

\* A load of n bytes at addr; out of bounds traps.
Load(st, addr, n) ==
    IF Trapped(st) THEN st
    ELSE IF ~InBounds(st.pages, addr, n) THEN [st EXCEPT !.trap = "oob"]
    ELSE st

\* (*header).field through a raw pointer to a struct of the given alignment.
Deref(st, ptr, align) ==
    IF Trapped(st) THEN st
    ELSE IF align_checks /\ ptr[2] % align # 0 THEN [st EXCEPT !.trap = "panic"]
    ELSE st

\* size_of and align_of of the #[repr(C)] layout structs on wasm32.
SizeOfAscArrayHeader == 16
SizeOfAscTypedMapHeader == 4
SizeOfAscTypedMapEntryHeader == 8
SizeOfAscEnumHeader == 16
AlignOfU32 == 4
AlignOfAscEnumHeader == 8

StoreValueKind_String == 0
StoreValueKind_Int == 1
StoreValueKind_BigDecimal == 2
StoreValueKind_Bool == 3
StoreValueKind_Array == 4
StoreValueKind_Null == 5
StoreValueKind_Bytes == 6
StoreValueKind_BigInt == 7
StoreValueKind_Int8 == 8
StoreValueKind_Timestamp == 9

\* enum Value: a tag and what the variant carries. A string is its sequence of
\* Unicode scalar values, Bytes its sequence of bytes, a BigInt or BigDecimal
\* the pointer of the host object it is a handle of.
Value_String(s) == [tag |-> "String", v |-> s]
Value_Int(i) == [tag |-> "Int", v |-> i]
Value_Int8(i) == [tag |-> "Int8", v |-> i]
Value_BigInt(ptr) == [tag |-> "BigInt", v |-> ptr]
Value_BigDecimal(ptr) == [tag |-> "BigDecimal", v |-> ptr]
Value_Bool(b) == [tag |-> "Bool", v |-> b]
Value_Bytes(bs) == [tag |-> "Bytes", v |-> bs]
Value_Array(arr) == [tag |-> "Array", v |-> arr]
Value_Null == [tag |-> "Null", v |-> << >>]

\* str::encode_utf16: one unit below U+10000, a surrogate pair from there on.
RECURSIVE encode_utf16(_)
encode_utf16(s) ==
    IF s = << >> THEN << >>
    ELSE LET c == Head(s)
         IN  (IF c < Half THEN <<c>>
              ELSE <<55296 + ((c - Half) \div 1024), 56320 + ((c - Half) % 1024)>>)
             \o encode_utf16(Tail(s))

\* Mutant of UnitsLE: big-endian units.
RECURSIVE UnitsBE(_)
UnitsBE(units) ==
    IF units = << >> THEN << >>
    ELSE <<Head(units) \div 256, Head(units) % 256>> \o UnitsBE(Tail(units))

\* The units as little-endian bytes (unit.to_le(), write_unaligned as *mut u16).
RECURSIVE UnitsLE(_)
UnitsLE(units) ==
    IF units = << >> THEN << >>
    ELSE <<Head(units) % 256, Head(units) \div 256>> \o UnitsLE(Tail(units))

\* Mutant of str_to_asc: allocates one byte per UTF-16 unit.
str_byte_len_units(utf16) == Len(utf16)

\* let byte_len = utf16.len() * 2
str_byte_len(utf16) == Len(utf16) * 2

str_to_asc(st, s) ==
    Only({Store(a, a.ret, UnitsLE(encode_utf16(s))) :
            a \in {asc_alloc(st, U(str_byte_len(encode_utf16(s))), U(class_id_STRING),
                             "module")}})

bytes_to_asc(st, data) ==
    Only({Store(a, a.ret, data) :
            a \in {asc_alloc(st, U(Len(data)), U(class_id_ARRAY_BUFFER), "module")}})

\* An i32 or i64 `as u64`: two's complement, sign-extended to 64 bits, as the
\* pair <<low word, high word>>.
AsU32(i) ==
    IF i >= 0 THEN U(i)
    ELSE <<65535 - ((-i - 1) \div Half), 65535 - ((-i - 1) % Half)>>

\* Mutant of AsU64: zero-extends.
AsU64_zero_extended(i) == <<AsU32(i), U(0)>>

AsU64(i) == <<AsU32(i), IF i < 0 THEN <<65535, 65535>> ELSE U(0)>>
PtrAsU64(ptr) == <<ptr, U(0)>>

\* Mutant of array_header_words: length holds the byte length.
array_header_words_bytes(buffer_ptr, buffer_size, count) ==
    <<buffer_ptr, U(0), buffer_size, buffer_size>>

\* (*header).buffer, .buffer_data_start, .buffer_data_length, .length
array_header_words(buffer_ptr, buffer_size, count) ==
    <<buffer_ptr, U(0), buffer_size, U(count)>>

\* Mutant of enum_header_words: the kind is not written.
enum_header_words_no_kind(kind, payload) == <<U(0), U(0), payload[1], payload[2]>>

\* (*header).kind, ._padding, .payload
enum_header_words(kind, payload) == <<U(kind), U(0), payload[1], payload[2]>>

\* let buffer_size = (count * 4) as u32
buffer_size(count) == U(count * 4)

\* Allocate the Array struct and write its header.
alloc_array(st, buffer_ptr, count, class_id) ==
    Only({Store(Deref(a, a.ret, AlignOfU32), a.ret,
                Flatten(array_header_words(buffer_ptr, buffer_size(count), count))) :
            a \in {asc_alloc(st, U(SizeOfAscArrayHeader), U(class_id), "module")}})

\* The state st with r as the value returned.
Ret(st, r) == [st EXCEPT !.ret = r]

RECURSIVE serialize_value(_, _), serialize_value_array(_, _), serialize_values(_, _, _, _)

\* The (kind, payload) match of serialize_value: allocates what the variant
\* points to and leaves <<kind, payload>> in ret.
value_payload(st, value) ==
    CASE value.tag = "String" ->
           Only({Ret(a, <<StoreValueKind_String, PtrAsU64(a.ret)>>) :
                   a \in {str_to_asc(st, value.v)}})
      [] value.tag = "Int" -> Ret(st, <<StoreValueKind_Int, AsU64(value.v)>>)
      [] value.tag = "Int8" -> Ret(st, <<StoreValueKind_Int8, AsU64(value.v)>>)
      [] value.tag = "BigInt" -> Ret(st, <<StoreValueKind_BigInt, PtrAsU64(value.v)>>)
      [] value.tag = "BigDecimal" ->
           Ret(st, <<StoreValueKind_BigDecimal, PtrAsU64(value.v)>>)
      [] value.tag = "Bool" ->
           Ret(st, <<StoreValueKind_Bool, IF value.v THEN AsU64(1) ELSE AsU64(0)>>)
      [] value.tag = "Bytes" ->
           Only({Ret(a, <<StoreValueKind_Bytes, PtrAsU64(a.ret)>>) :
                   a \in {bytes_to_asc(st, value.v)}})
      [] value.tag = "Array" ->
           Only({Ret(a, <<StoreValueKind_Array, PtrAsU64(a.ret)>>) :
                   a \in {serialize_value_array(st, value.v)}})
      [] value.tag = "Null" -> Ret(st, <<StoreValueKind_Null, AsU64(0)>>)

\* Allocate the enum struct and write kind, _padding and payload.
alloc_enum(st, kind, payload) ==
    Only({Store(Deref(a, a.ret, AlignOfAscEnumHeader), a.ret,
                Flatten(enum_header_words(kind, payload))) :
            a \in {asc_alloc(st, U(SizeOfAscEnumHeader), U(class_id_STORE_VALUE), "module")}})

serialize_value(st, value) ==
    Only({IF Trapped(p) THEN p ELSE alloc_enum(p, p.ret[1], p.ret[2]) :
            p \in {value_payload(st, value)}})

\* write_unaligned((buffer_ptr as *mut u32).add(i), ptr) for the pointer the
\* step before returned.
StoreSlot(st, buffer_ptr, i) == Store(st, Add32(buffer_ptr, U(4 * i)), Bytes32(st.ret))

\* for (i, value) in values.iter().enumerate(): serialize, store the pointer
\* in slot i of the buffer (i counts from 1 here).
serialize_values(st, buffer_ptr, values, i) ==
    IF Trapped(st) \/ i > Len(values) THEN st
    ELSE Only({serialize_values(b, buffer_ptr, values, i + 1) :
                 b \in {StoreSlot(a, buffer_ptr, i - 1) :
                          a \in {serialize_value(st, values[i])}}})

serialize_value_array(st, values) ==
    Only({Only({alloc_array(b, a.ret, Len(values), class_id_ARRAY_STORE_VALUE) :
                  b \in {serialize_values(a, a.ret, values, 1)}}) :
            a \in {asc_alloc(st, buffer_size(Len(values)), U(class_id_ARRAY_BUFFER),
                             "module")}})

\* Allocate the entry struct and write key and value.
alloc_entry(st, key_ptr, value_ptr) ==
    Only({Store(Deref(a, a.ret, AlignOfU32), a.ret, Flatten(<<key_ptr, value_ptr>>)) :
            a \in {asc_alloc(st, U(SizeOfAscTypedMapEntryHeader),
                             U(class_id_TYPED_MAP_ENTRY), "module")}})

serialize_entry(st, key, value) ==
    Only({Only({alloc_entry(v, k.ret, v.ret) : v \in {serialize_value(k, value)}}) :
            k \in {str_to_asc(st, key)}})

\* for (i, (key, value)) in entries.iter().enumerate()
RECURSIVE serialize_entries(_, _, _, _)
serialize_entries(st, buffer_ptr, entries, i) ==
    IF Trapped(st) \/ i > Len(entries) THEN st
    ELSE Only({serialize_entries(b, buffer_ptr, entries, i + 1) :
                 b \in {StoreSlot(a, buffer_ptr, i - 1) :
                          a \in {serialize_entry(st, entries[i][1], entries[i][2])}}})

\* Allocate the TypedMap struct and write entries.
alloc_map(st, array_ptr) ==
    Only({Store(Deref(a, a.ret, AlignOfU32), a.ret, Bytes32(array_ptr)) :
            a \in {asc_alloc(st, U(SizeOfAscTypedMapHeader), U(class_id_TYPED_MAP),
                             "module")}})

\* EntityData is a BTreeMap: data.iter() gives the entries in key order; the
\* model keeps an entity as the sequence of its <<key, value>> in that order.
serialize_entity(st, data) ==
    Only({Only({alloc_map(c, c.ret) :
                  c \in {alloc_array(b, a.ret, Len(data), class_id_ARRAY_PTR) :
                           b \in {serialize_entries(a, a.ret, data, 1)}}}) :
            a \in {asc_alloc(st, buffer_size(Len(data)), U(class_id_ARRAY_BUFFER),
                             "module")}})

\* for (i, s) in strings.iter().enumerate()
RECURSIVE strings_to_slots(_, _, _, _)
strings_to_slots(st, buffer_ptr, strings, i) ==
    IF Trapped(st) \/ i > Len(strings) THEN st
    ELSE Only({strings_to_slots(b, buffer_ptr, strings, i + 1) :
                 b \in {StoreSlot(a, buffer_ptr, i - 1) :
                          a \in {str_to_asc(st, strings[i])}}})

strings_to_asc_array(st, strings) ==
    Only({Only({alloc_array(b, a.ret, Len(strings), class_id_ARRAY_PTR) :
                  b \in {strings_to_slots(a, a.ret, strings, 1)}}) :
            a \in {asc_alloc(st, buffer_size(Len(strings)), U(class_id_ARRAY_BUFFER),
                             "module")}})

\* -------------------------------------------------------------------------
\* Strings, bytes and store values read back from linear memory
\* (asc.rs, store.rs). Each decoder leaves what it decoded in ret.
\* -------------------------------------------------------------------------

\* A u32 below 2^31 as a number.
Val32(w) == w[1] * Half + w[2]

\* `as i32` of a u32.
AsI32(w) ==
    IF w[1] < 32768 THEN Val32(w)
    ELSE -((65535 - w[1]) * Half + (65535 - w[2])) - 1

\* `as i64` of a u64 <<low, high>>: a number when it fits 32 bits, the words
\* themselves when it does not.
AsI64(p) ==
    IF p[2] = U(0) /\ p[1][1] < 32768 THEN Val32(p[1])
    ELSE IF p[2] = <<65535, 65535>> /\ p[1][1] >= 32768 THEN AsI32(p[1])
    ELSE p

Rd16(m, addr) == Rd8(m, addr) + 256 * Rd8(m, Add32(addr, U(1)))

\* String::from_utf16_lossy: a surrogate pair is one scalar value, an unpaired
\* surrogate is U+FFFD.
RECURSIVE from_utf16_lossy(_)
from_utf16_lossy(units) ==
    IF units = << >> THEN << >>
    ELSE LET u == Head(units)
         IN  IF u < 55296 \/ u > 57343
             THEN <<u>> \o from_utf16_lossy(Tail(units))
             ELSE IF u <= 56319 /\ Len(units) >= 2
                     /\ units[2] >= 56320 /\ units[2] <= 57343
             THEN <<Half + (u - 55296) * 1024 + (units[2] - 56320)>>
                  \o from_utf16_lossy(Tail(Tail(units)))
             ELSE <<65533>> \o from_utf16_lossy(Tail(units))

\* read_rt_size(raw) as the decoders run it: ptr - 4 panics on overflow in a
\* checked build, the load traps out of bounds. A size the heap cannot hold
\* ends the instance when the Vec is reserved.
load_rt_size(st, ptr) ==
    IF Trapped(st) THEN st
    ELSE IF overflow_checks /\ Lt32(ptr, U(4)) THEN [st EXCEPT !.trap = "panic"]
    ELSE LET a == Load(st, Sub32(ptr, U(4)), 4)
         IN  IF ~Trapped(a) /\ read_rt_size(st.mem, ptr)[1] >= 32768
             THEN [a EXCEPT !.trap = "capacity"]
             ELSE a

\* Mutant of string_is_null: no null check.
string_is_null_never(ptr) == FALSE

\* ptr.is_null()
string_is_null(ptr) == ptr = U(0)

\* The n UTF-16 units at ptr.
UnitsAt(m, ptr, n) == [i \in 1..n |-> Rd16(m, Add32(ptr, U(2 * (i - 1))))]

\* The n bytes at ptr.
BytesAt(m, ptr, n) == [i \in 1..n |-> Rd8(m, Add32(ptr, U(i - 1)))]

asc_to_string(st, ptr) ==
    IF Trapped(st) THEN st
    ELSE IF string_is_null(ptr) THEN Ret(st, << >>)
    ELSE Only({IF Trapped(a) THEN a
               ELSE Only({IF Trapped(b) THEN b
                          ELSE Ret(b, from_utf16_lossy(
                                   UnitsAt(b.mem, ptr, Val32(read_rt_size(b.mem, ptr)) \div 2))) :
                            b \in {Load(a, ptr, 2 * (Val32(read_rt_size(a.mem, ptr)) \div 2))}}) :
                 a \in {load_rt_size(st, ptr)}})

asc_to_bytes(st, ptr) ==
    IF Trapped(st) THEN st
    ELSE IF ptr = U(0) THEN Ret(st, << >>)
    ELSE Only({IF Trapped(a) THEN a
               ELSE Only({IF Trapped(b) THEN b
                          ELSE Ret(b, BytesAt(b.mem, ptr, Val32(read_rt_size(b.mem, ptr)))) :
                            b \in {Load(a, ptr, Val32(read_rt_size(a.mem, ptr)))}}) :
                 a \in {load_rt_size(st, ptr)}})

\* read_u32_at(base, offset): read_unaligned; the field and the state after
\* the load.
read_u32_at(m, base, offset) == Rd32(m, Add32(base, U(offset)))
load_u32_at(st, base, offset) == Load(st, Add32(base, U(offset)), 4)

\* String's Ord: lexicographic on the UTF-8 bytes, which is lexicographic on
\* the scalar values.
RECURSIVE StrLt(_, _)
StrLt(a, b) ==
    IF b = << >> THEN FALSE
    ELSE IF a = << >> THEN TRUE
    ELSE IF Head(a) # Head(b) THEN Head(a) < Head(b)
    ELSE StrLt(Tail(a), Tail(b))

\* EntityData::set: BTreeMap::insert, on the sequence of entries in key order.
RECURSIVE EntityData_set(_, _, _)
EntityData_set(data, key, value) ==
    IF data = << >> THEN <<<<key, value>>>>
    ELSE IF Head(data)[1] = key THEN <<<<key, value>>>> \o Tail(data)
    ELSE IF StrLt(key, Head(data)[1]) THEN <<<<key, value>>>> \o data
    ELSE <<Head(data)>> \o EntityData_set(Tail(data), key, value)

RECURSIVE deserialize_value(_, _), deserialize_value_array(_, _), deserialize_values(_, _, _, _, _)

\* match kind { ... } of deserialize_value.
value_of_kind(st, kind, payload) ==
    CASE kind = 0 -> Only({IF Trapped(a) THEN a ELSE Ret(a, Value_String(a.ret)) :
                   a \in {asc_to_string(st, payload[1])}})
      [] kind = 1 -> Ret(st, Value_Int(AsI32(payload[1])))
      [] kind = 2 -> Ret(st, Value_BigDecimal(payload[1]))
      [] kind = 3 -> Ret(st, Value_Bool(payload # <<U(0), U(0)>>))
      [] kind = 4 ->
           Only({IF Trapped(a) THEN a ELSE Ret(a, Value_Array(a.ret)) :
                   a \in {deserialize_value_array(st, payload[1])}})
      [] kind = 5 -> Ret(st, Value_Null)
      [] kind = 6 -> Only({IF Trapped(a) THEN a ELSE Ret(a, Value_Bytes(a.ret)) :
                   a \in {asc_to_bytes(st, payload[1])}})
      [] kind = 7 -> Ret(st, Value_BigInt(payload[1]))
      [] kind = 8 -> Ret(st, Value_Int8(AsI64(payload)))
      [] OTHER -> Ret(st, Value_Null)

deserialize_value(st, ptr) ==
    IF Trapped(st) THEN st
    ELSE IF ptr = U(0) THEN Ret(st, Value_Null)
    ELSE Only({IF Trapped(h) THEN h
               ELSE value_of_kind(h, AsI32(read_u32_at(h.mem, ptr, 0)),
                                  <<read_u32_at(h.mem, ptr, 8), read_u32_at(h.mem, ptr, 12)>>) :
                 h \in {Load(Deref(st, ptr, AlignOfAscEnumHeader), ptr, SizeOfAscEnumHeader)}})

\* for i in 0..length as usize: read slot i, decode, push (i counts from 1).
deserialize_values(st, buffer_ptr, length, i, values) ==
    IF Trapped(st) THEN st
    ELSE IF i > length THEN Ret(st, values)
    ELSE Only({IF Trapped(v) THEN v
               ELSE deserialize_values(v, buffer_ptr, length, i + 1, Append(values, v.ret)) :
                 v \in {deserialize_value(a, read_u32_at(a.mem, buffer_ptr, 4 * (i - 1))) :
                          a \in {load_u32_at(st, buffer_ptr, 4 * (i - 1))}}})

\* (*array_header).buffer and .length are loaded.
load_array_header(st, ptr) ==
    load_u32_at(load_u32_at(Deref(st, ptr, AlignOfU32), ptr, 0), ptr, 12)

deserialize_value_array(st, ptr) ==
    IF Trapped(st) THEN st
    ELSE IF ptr = U(0) THEN Ret(st, << >>)
    ELSE Only({IF Trapped(h) THEN h
               ELSE IF read_u32_at(h.mem, ptr, 0) = U(0)
                       \/ AsI32(read_u32_at(h.mem, ptr, 12)) <= 0
               THEN Ret(h, << >>)
               ELSE deserialize_values(h, read_u32_at(h.mem, ptr, 0),
                                       AsI32(read_u32_at(h.mem, ptr, 12)), 1, << >>) :
                 h \in {load_array_header(st, ptr)}})

\* One entry of deserialize_entity: key and value are decoded and set.
deserialize_entry(st, entry_ptr, data) ==
    Only({IF Trapped(e) THEN e
          ELSE Only({Only({IF Trapped(v) THEN v
                           ELSE Ret(v, EntityData_set(data, k.ret, v.ret)) :
                             v \in {deserialize_value(k, read_u32_at(k.mem, entry_ptr, 4))}}) :
                       k \in {asc_to_string(e, read_u32_at(e.mem, entry_ptr, 0))}}) :
            e \in {load_u32_at(load_u32_at(Deref(st, entry_ptr, AlignOfU32), entry_ptr, 0),
                               entry_ptr, 4)}})

\* The loop of deserialize_entity: a null entry pointer is skipped.
RECURSIVE deserialize_entries(_, _, _, _, _)
deserialize_entries(st, buffer_ptr, length, i, data) ==
    IF Trapped(st) THEN st
    ELSE IF i > length THEN Ret(st, data)
    ELSE Only({IF Trapped(a) THEN a
               ELSE IF read_u32_at(a.mem, buffer_ptr, 4 * (i - 1)) = U(0)
               THEN deserialize_entries(a, buffer_ptr, length, i + 1, data)
               ELSE Only({IF Trapped(d) THEN d
                          ELSE deserialize_entries(d, buffer_ptr, length, i + 1, d.ret) :
                            d \in {deserialize_entry(a, read_u32_at(a.mem, buffer_ptr,
                                                                    4 * (i - 1)), data)}}) :
                 a \in {load_u32_at(st, buffer_ptr, 4 * (i - 1))}})

deserialize_entity(st, ptr) ==
    IF Trapped(st) THEN st
    ELSE IF ptr = U(0) THEN Ret(st, << >>)
    ELSE Only({IF Trapped(m) THEN m
               ELSE IF read_u32_at(m.mem, ptr, 0) = U(0) THEN Ret(m, << >>)
               ELSE Only({IF Trapped(h) THEN h
                          ELSE IF read_u32_at(h.mem, read_u32_at(h.mem, ptr, 0), 0) = U(0)
                                  \/ AsI32(read_u32_at(h.mem, read_u32_at(h.mem, ptr, 0), 12)) <= 0
                          THEN Ret(h, << >>)
                          ELSE deserialize_entries(
                                   h, read_u32_at(h.mem, read_u32_at(h.mem, ptr, 0), 0),
                                   AsI32(read_u32_at(h.mem, read_u32_at(h.mem, ptr, 0), 12)),
                                   1, << >>) :
                            h \in {load_array_header(m, read_u32_at(m.mem, ptr, 0))}}) :
                 m \in {load_u32_at(Deref(st, ptr, AlignOfU32), ptr, 0)}})

\* -------------------------------------------------------------------------
\* The store model: a handler writes entities and creates data sources; the
\* host allocates while it serves an import.
\* -------------------------------------------------------------------------

MaxOps == 1
MaxHostNew == 1

\* "id", "a", "e", "t", "Pool", "T"
str_id == <<105, 100>>
str_a == <<97>>
str_e == <<101>>
str_t == <<116>>
str_Pool == <<80, 111, 111, 108>>
str_T == <<84>>

\* What the host allocates for the module: the 4 bytes of a number.
HostObjects == {<<U(4), U(class_id_ARRAY_BUFFER)>>}

\* The handles a BigInt in the module can hold: null, or an object of the host.
Handles == {U(0)} \cup {allocs[i].ptr : i \in {j \in DOMAIN allocs : allocs[j].who = "host"}}

\* The entities written, each in key order.
Entities(h) ==
    {<< >>,
     <<<<str_id, Value_String(str_a)>>>>,
     <<<<str_a, Value_BigInt(h)>>, <<str_id, Value_Bytes(<<1, 2, 3>>)>>>>,
     <<<<str_e, Value_Array(<< >>)>>,
       <<str_t, Value_Array(<<Value_Int(-1), Value_String(str_a)>>)>>>>,
     <<<<str_e, Value_Null>>, <<str_t, Value_Bool(TRUE)>>>>}

ParamLists == {<< >>, <<str_id, str_a>>}

\* The host calls __new while it prepares a call or serves an import.
HostNew ==
    /\ Live /\ ctl \in {"host", "import"}
    /\ Cardinality({i \in DOMAIN allocs : allocs[i].who = "host"}) < MaxHostNew
    /\ \E rq \in HostObjects :
         LET st == asc_alloc(Cur, rq[1], rq[2], "host")
         IN  /\ Commit(st)
             /\ last' = [op |-> "__new", arg |-> rq, ret |-> Result(st)]
    /\ UNCHANGED <<env, imports, ctl>>

\* The module reaches a host import with these arguments, unless it trapped
\* on the way.
CallImport(st, name, args) ==
    IF Trapped(st) THEN UNCHANGED <<imports, ctl>>
    ELSE /\ imports' = Append(imports, [name |-> name, args |-> args])
         /\ ctl' = "import"

\* Mutant of store_set_run: the id is passed before the type.
store_set_run_id_first(st, entity_type, id, data) ==
    Only({Only({Only({[st |-> d, args |-> <<i.ret, t.ret, d.ret>>] :
                        d \in {serialize_entity(i, data)}}) :
                  i \in {str_to_asc(t, id)}}) :
            t \in {str_to_asc(st, entity_type)}})

\* The body of store::set up to the import: the state it leaves and the
\* arguments it passes to store.set.
store_set_run(st, entity_type, id, data) ==
    Only({Only({Only({[st |-> d, args |-> <<t.ret, i.ret, d.ret>>] :
                        d \in {serialize_entity(i, data)}}) :
                  i \in {str_to_asc(t, id)}}) :
            t \in {str_to_asc(st, entity_type)}})

\* The body of data_source::create up to the import.
data_source_create_run(st, name, params) ==
    Only({Only({[st |-> p, args |-> <<n.ret, p.ret>>] :
                  p \in {strings_to_asc_array(n, params)}}) :
            n \in {str_to_asc(st, name)}})

\* store::set(entity_type, id, data)
store_set ==
    /\ Live /\ ctl = "module" /\ Len(imports) < MaxOps
    /\ \E h \in Handles : \E data \in Entities(h) :
         \E r \in {store_set_run(Cur, str_T, str_a, data)} :
             /\ Commit(r.st)
             /\ CallImport(r.st, "store.set", r.args)
             /\ last' = [op |-> "store::set", arg |-> <<str_T, str_a, data>>,
                         ret |-> IF Trapped(r.st) THEN NoPtr ELSE r.args]
    /\ UNCHANGED env

\* data_source::create(name, params)
data_source_create ==
    /\ Live /\ ctl = "module" /\ Len(imports) < MaxOps
    /\ \E params \in ParamLists :
         \E r \in {data_source_create_run(Cur, str_Pool, params)} :
             /\ Commit(r.st)
             /\ CallImport(r.st, "dataSource.create", r.args)
             /\ last' = [op |-> "data_source::create", arg |-> <<str_Pool, params>>,
                         ret |-> IF Trapped(r.st) THEN NoPtr ELSE r.args]
    /\ UNCHANGED env

NextStore ==
    \/ HostNew
    \/ HandlerEnter
    \/ store_set
    \/ data_source_create
    \/ ImportReturn
    \/ HandlerReturn

\* The codecs do not depend on where the heap starts: one module, every build.
InitStore == Init /\ heap_base_sym = U(1024)

SpecStore == InitStore /\ [][NextStore]_vars

\* -------------------------------------------------------------------------
\* Claims about the object graphs the module builds
\* -------------------------------------------------------------------------

ModuleObjects == {i \in DOMAIN allocs : allocs[i].who = "module"}

\* The class of the object at ptr, as its header says.
ClassOf(ptr) == Val32(read_rt_id(mem, ptr))

\* Slot i (from 1) of the buffer of the array at arr.
Slot(arr, i) == Rd32(mem, Add32(read_u32_at(mem, arr, 0), U(4 * (i - 1))))

\* The pointers stored in the object at ptr, each with the object that holds
\* it: an array holds its buffer, the buffer holds the elements, a map holds
\* its array, an entry its key and value, a store value its payload object.
PointerKinds ==
    {StoreValueKind_String, StoreValueKind_BigDecimal, StoreValueKind_Array,
     StoreValueKind_Bytes, StoreValueKind_BigInt}
EdgesOf(ptr) ==
    CASE ClassOf(ptr) \in {class_id_ARRAY_PTR, class_id_ARRAY_STORE_VALUE} ->
           {<<ptr, read_u32_at(mem, ptr, 0)>>}
           \cup {<<read_u32_at(mem, ptr, 0), Slot(ptr, i)>> :
                   i \in 1..AsI32(read_u32_at(mem, ptr, 12))}
      [] ClassOf(ptr) = class_id_TYPED_MAP -> {<<ptr, read_u32_at(mem, ptr, 0)>>}
      [] ClassOf(ptr) = class_id_TYPED_MAP_ENTRY ->
           {<<ptr, read_u32_at(mem, ptr, 0)>>, <<ptr, read_u32_at(mem, ptr, 4)>>}
      [] ClassOf(ptr) = class_id_STORE_VALUE ->
           IF AsI32(read_u32_at(mem, ptr, 0)) \in PointerKinds
           THEN {<<ptr, read_u32_at(mem, ptr, 8)>>} ELSE {}
      [] OTHER -> {}
Edges == UNION {EdgesOf(allocs[i].ptr) : i \in ModuleObjects}

\* C9: in every graph the module has built, every object that holds a
\* pointer, the byte buffer of an array included, lies at a higher address
\* than (was allocated after) the object the pointer refers to.
C9_HolderAfterPointee ==
    (trap = "none" /\ last.op \in {"store::set", "data_source::create"})
        => \A e \in Edges : e[2] # U(0) => Lt32(e[2], e[1])

\* The array at arr has the payload (buffer, 0, 4n, n) and its buffer is a
\* class-1 object of rt_size 4n.
ArrayShape(arr, n) ==
    LET buffer == read_u32_at(mem, arr, 0)
    IN  /\ buffer # U(0)
        /\ read_u32_at(mem, arr, 4) = U(0)
        /\ read_u32_at(mem, arr, 8) = U(4 * n)
        /\ read_u32_at(mem, arr, 12) = U(n)
        /\ read_rt_id(mem, buffer) = U(class_id_ARRAY_BUFFER)
        /\ read_rt_size(mem, buffer) = U(4 * n)

\* The value array at arr encodes the sequence values, slot by slot, and
\* decodes to it.
ValueArrayOk(arr, values) ==
    /\ ArrayShape(arr, Len(values))
    /\ \A j \in 1..Len(values) : deserialize_value(Cur, Slot(arr, j)).ret = values[j]
    /\ deserialize_value_array(Cur, arr).ret = values

\* The entity at map encodes data: entry i holds key i and value i, and a
\* value that is an array is itself a well-formed array.
EntityArraysOk(map, data) ==
    LET arr == read_u32_at(mem, map, 0)
    IN  /\ ArrayShape(arr, Len(data))
        /\ \A i \in 1..Len(data) :
             LET entry == Slot(arr, i)
                 value == read_u32_at(mem, entry, 4)
             IN  /\ asc_to_string(Cur, read_u32_at(mem, entry, 0)).ret = data[i][1]
                 /\ deserialize_value(Cur, value).ret = data[i][2]
                 /\ data[i][2].tag = "Array"
                      => ValueArrayOk(read_u32_at(mem, value, 8), data[i][2].v)

\* C10: a sequence of n references is encoded as an Array object with the
\* payload (buffer, 0, 4n, n) whose buffer is a class-1 object of rt_size 4n
\* holding the n child pointers in order; for n = 0 the buffer is a non-null
\* object of rt_size 0 and the array decodes to the empty sequence.
C10_ArrayLayout ==
    /\ (last.op = "data_source::create" /\ last.ret # NoPtr)
         => /\ ArrayShape(last.ret[2], Len(last.arg[2]))
            /\ \A i \in 1..Len(last.arg[2]) :
                 asc_to_string(Cur, Slot(last.ret[2], i)).ret = last.arg[2][i]
    /\ (last.op = "store::set" /\ last.ret # NoPtr)
         => EntityArraysOk(last.ret[3], last.arg[3])

C10_Witness ==
    /\ last.op = "store::set" /\ last.ret # NoPtr
    /\ last.arg[3] = <<<<str_e, Value_Array(<< >>)>>,
                       <<str_t, Value_Array(<<Value_Int(-1), Value_String(str_a)>>)>>>>
    /\ LET empty == read_u32_at(mem, read_u32_at(mem, Slot(read_u32_at(mem, last.ret[3], 0), 1), 4), 8)
       IN  /\ read_u32_at(mem, empty, 0) # U(0)
           /\ read_rt_size(mem, read_u32_at(mem, empty, 0)) = U(0)

\* -------------------------------------------------------------------------
\* Ethereum types read from linear memory (types.rs, ethereum.rs, and the
\* generated TransferParams of the erc20-transfer subgraph)
\* -------------------------------------------------------------------------

\* Option<T>
None == << >>
Some(x) == <<x>>

\* Address::zero() and Address::from(&[u8]): the first 20 bytes at most,
\* right-aligned in 20 zero bytes.
Address_zero == [i \in 1..20 |-> 0]
Address_from(bytes) ==
    LET len == IF Len(bytes) < 20 THEN Len(bytes) ELSE 20
    IN  [i \in 1..20 |-> IF i <= 20 - len THEN 0 ELSE bytes[i - (20 - len)]]

Address_from_asc_ptr(st, ptr) ==
    IF Trapped(st) THEN st
    ELSE IF ptr = U(0) THEN Ret(st, Address_zero)
    ELSE Only({IF Trapped(a) THEN a ELSE Ret(a, Address_from(a.ret)) :
                 a \in {asc_to_bytes(st, ptr)}})

Bytes_from_asc_ptr(st, ptr) ==
    IF Trapped(st) THEN st
    ELSE IF ptr = U(0) THEN Ret(st, << >>)
    ELSE asc_to_bytes(st, ptr)

\* A BigInt is the pointer of the host object it is a handle of.
BigInt_from_asc_ptr(st, ptr) == IF Trapped(st) THEN st ELSE Ret(st, ptr)

\* BigInt::zero() = from_i32(0): the four little-endian bytes of 0 in a new
\* byte buffer.
BigInt_zero(st) == bytes_to_asc(st, <<0, 0, 0, 0>>)

\* The struct literals of the decoders and of Default: field, offset, type, in
\* the order the fields are written (and so evaluated).
block_fields ==
    <<<<"hash", 0, "Bytes">>, <<"parent_hash", 4, "Bytes">>,
      <<"uncles_hash", 8, "Bytes">>, <<"author", 12, "Address">>,
      <<"state_root", 16, "Bytes">>, <<"transactions_root", 20, "Bytes">>,
      <<"receipts_root", 24, "Bytes">>, <<"number", 28, "BigInt">>,
      <<"gas_used", 32, "BigInt">>, <<"gas_limit", 36, "BigInt">>,
      <<"timestamp", 40, "BigInt">>, <<"difficulty", 44, "BigInt">>,
      <<"total_difficulty", 48, "BigInt">>, <<"size", 52, "OptBigInt">>,
      <<"base_fee_per_gas", 56, "OptBigInt">>>>
tx_fields ==
    <<<<"hash", 0, "Bytes">>, <<"index", 4, "BigInt">>, <<"from", 8, "Address">>,
      <<"to", 12, "OptAddress">>, <<"value", 16, "BigInt">>,
      <<"gas_limit", 20, "BigInt">>, <<"gas_price", 24, "BigInt">>,
      <<"input", 28, "Bytes">>, <<"nonce", 32, "BigInt">>>>
receipt_fields ==
    <<<<"transaction_hash", 0, "Bytes">>, <<"transaction_index", 4, "BigInt">>,
      <<"block_hash", 8, "Bytes">>, <<"block_number", 12, "BigInt">>,
      <<"cumulative_gas_used", 16, "BigInt">>, <<"gas_used", 20, "BigInt">>,
      <<"contract_address", 24, "OptAddress">>, <<"status", 28, "BigInt">>,
      <<"root", 32, "Bytes">>, <<"logs_bloom", 36, "Bytes">>>>
event_fields ==
    <<<<"address", 0, "Address">>, <<"log_index", 4, "BigInt">>,
      <<"transaction_log_index", 8, "BigInt">>, <<"log_type", 12, "OptString">>,
      <<"block", 16, "Block">>, <<"transaction", 20, "Transaction">>,
      <<"params", 24, "TransferParams">>, <<"receipt", 28, "OptReceipt">>>>
transfer_params_fields ==
    <<<<"from", 0, "Address">>, <<"to", 4, "Address">>, <<"value", 8, "BigInt">>>>

\* Default::default() of a field of the given type.
default_of(st, type) ==
    CASE type = "Bytes" -> Ret(st, << >>)
      [] type = "Address" -> Ret(st, Address_zero)
      [] type = "BigInt" -> BigInt_zero(st)
      [] OTHER -> Ret(st, None)

\* The struct literal of a Default impl, field by field.
RECURSIVE default_record(_, _, _, _)
default_record(st, fields, i, rec) ==
    IF Trapped(st) THEN st
    ELSE IF i > Len(fields) THEN Ret(st, rec)
    ELSE Only({IF Trapped(a) THEN a
               ELSE default_record(a, fields, i + 1, (fields[i][1] :> a.ret) @@ rec) :
                 a \in {default_of(st, fields[i][3])}})

\* Mutant of block_is_null: no null check.
block_is_null_never(ptr) == FALSE

\* if ptr == 0 { return Block::default(); }
block_is_null(ptr) == ptr = U(0)

\* Mutant of event_is_null: no null check.
event_is_null_never(ptr) == FALSE

\* if ptr == 0 { panic!("Cannot deserialize Event from null pointer"); }
event_is_null(ptr) == ptr = U(0)

\* The two reads behind EventParam[k]'s value: the pointer in slot k of the
\* buffer, then the value field of the EventParam.
load_param_value(st, buffer_ptr, k) ==
    Only({load_u32_at(a, read_u32_at(a.mem, buffer_ptr, 4 * k), 4) :
            a \in {load_u32_at(st, buffer_ptr, 4 * k)}})

\* Mutant of param_value: the name field is read.
param_value_name(m, buffer_ptr, k) == read_u32_at(m, read_u32_at(m, buffer_ptr, 4 * k), 0)

param_value(m, buffer_ptr, k) == read_u32_at(m, read_u32_at(m, buffer_ptr, 4 * k), 4)

\* The non-null arm of TransferParams::from_asc_ptr.
transfer_params_at(st, ptr) ==
    Only({IF Trapped(h) THEN h
          ELSE Only({Only({IF Trapped(t) THEN t
                           ELSE Only({IF Trapped(v) THEN v
                                      ELSE Ret(v, [from |-> Address_from(f.ret),
                                                   to |-> Address_from(t.ret),
                                                   value |-> param_value(v.mem, read_u32_at(v.mem, ptr, 0), 2)]) :
                                        v \in {load_param_value(t, read_u32_at(t.mem, ptr, 0), 2)}}) :
                             t \in {asc_to_bytes(load_param_value(f, read_u32_at(f.mem, ptr, 0), 1),
                                                 param_value(f.mem, read_u32_at(f.mem, ptr, 0), 1))}}) :
                       f \in {asc_to_bytes(load_param_value(h, read_u32_at(h.mem, ptr, 0), 0),
                                           param_value(h.mem, read_u32_at(h.mem, ptr, 0), 0))}}) :
            h \in {load_array_header(st, ptr)}})

RECURSIVE from_asc_ptr(_, _, _), record_at(_, _, _, _, _)

\* The struct literal of a decoder: each field is read at its offset and
\* decoded with its type's from_asc_ptr.
record_at(st, ptr, fields, i, rec) ==
    IF Trapped(st) THEN st
    ELSE IF i > Len(fields) THEN Ret(st, rec)
    ELSE Only({IF Trapped(a) THEN a
               ELSE record_at(a, ptr, fields, i + 1, (fields[i][1] :> a.ret) @@ rec) :
                 a \in {from_asc_ptr(b, fields[i][3], read_u32_at(b.mem, ptr, fields[i][2])) :
                          b \in {load_u32_at(st, ptr, fields[i][2])}}})

\* <T as FromAscPtr>::from_asc_ptr(ptr); the Opt types are the
\* `if p == 0 { None } else { Some(..) }` fields.
from_asc_ptr(st, type, ptr) ==
    IF Trapped(st) THEN st
    ELSE CASE type = "String" -> asc_to_string(st, ptr)
           [] type = "Vec<u8>" -> asc_to_bytes(st, ptr)
           [] type = "bool" -> Ret(st, ptr # U(0))
           [] type = "i32" -> Ret(st, AsI32(ptr))
           [] type = "u32" -> Ret(st, ptr)
           [] type = "Address" -> Address_from_asc_ptr(st, ptr)
           [] type = "Bytes" -> Bytes_from_asc_ptr(st, ptr)
           [] type = "BigInt" -> BigInt_from_asc_ptr(st, ptr)
           [] type = "Block" ->
                IF block_is_null(ptr) THEN default_record(st, block_fields, 1, << >>)
                ELSE record_at(st, ptr, block_fields, 1, << >>)
           [] type = "Transaction" ->
                IF ptr = U(0) THEN default_record(st, tx_fields, 1, << >>)
                ELSE record_at(st, ptr, tx_fields, 1, << >>)
           [] type = "TransactionReceipt" ->
                IF ptr = U(0) THEN default_record(st, receipt_fields, 1, << >>)
                ELSE record_at(st, ptr, receipt_fields, 1, << >>)
           [] type = "TransferParams" ->
                IF ptr = U(0) THEN default_record(st, transfer_params_fields, 1, << >>)
                ELSE transfer_params_at(st, ptr)
           [] type = "Event" ->
                IF event_is_null(ptr) THEN [st EXCEPT !.trap = "panic"]
                ELSE record_at(st, ptr, event_fields, 1, << >>)
           [] type = "OptBigInt" ->
                IF ptr = U(0) THEN Ret(st, None) ELSE Ret(st, Some(ptr))
           [] type = "OptAddress" ->
                IF ptr = U(0) THEN Ret(st, None)
                ELSE Only({IF Trapped(a) THEN a ELSE Ret(a, Some(a.ret)) :
                             a \in {Address_from_asc_ptr(st, ptr)}})
           [] type = "OptString" ->
                IF ptr = U(0) THEN Ret(st, None)
                ELSE Only({IF Trapped(a) THEN a ELSE Ret(a, Some(a.ret)) :
                             a \in {asc_to_string(st, ptr)}})
           [] type = "OptReceipt" ->
                IF ptr = U(0) THEN Ret(st, None)
                ELSE Only({IF Trapped(a) THEN a ELSE Ret(a, Some(a.ret)) :
                             a \in {from_asc_ptr(st, "TransactionReceipt", ptr)}})

\* Token variants (types.rs).
Token_Address(a) == [tag |-> "Address", v |-> a]
Token_FixedBytes(b) == [tag |-> "FixedBytes", v |-> b]
Token_Bytes(b) == [tag |-> "Bytes", v |-> b]
Token_Int(ptr) == [tag |-> "Int", v |-> ptr]
Token_Uint(ptr) == [tag |-> "Uint", v |-> ptr]
Token_Bool(b) == [tag |-> "Bool", v |-> b]
Token_String(s) == [tag |-> "String", v |-> s]
Token_FixedArray(ts) == [tag |-> "FixedArray", v |-> ts]
Token_Array(ts) == [tag |-> "Array", v |-> ts]
Token_Tuple(ts) == [tag |-> "Tuple", v |-> ts]

RECURSIVE deserialize_token(_, _), deserialize_token_array(_, _), deserialize_tokens(_, _, _, _, _)

\* match kind { ... } of deserialize_token; payload is <<low, high>>.
token_of_kind(st, kind, payload) ==
    CASE kind = 0 -> Only({IF Trapped(a) THEN a ELSE Ret(a, Token_Address(Address_from(a.ret))) :
                   a \in {asc_to_bytes(st, payload[1])}})
      [] kind = 1 -> Only({IF Trapped(a) THEN a ELSE Ret(a, Token_FixedBytes(a.ret)) :
                   a \in {asc_to_bytes(st, payload[1])}})
      [] kind = 2 -> Only({IF Trapped(a) THEN a ELSE Ret(a, Token_Bytes(a.ret)) :
                   a \in {asc_to_bytes(st, payload[1])}})
      [] kind = 3 -> Ret(st, Token_Int(payload[1]))
      [] kind = 4 -> Ret(st, Token_Uint(payload[1]))
      [] kind = 5 -> Ret(st, Token_Bool(payload # <<U(0), U(0)>>))
      [] kind = 6 -> Only({IF Trapped(a) THEN a ELSE Ret(a, Token_String(a.ret)) :
                   a \in {asc_to_string(st, payload[1])}})
      [] kind = 7 -> Only({IF Trapped(a) THEN a ELSE Ret(a, Token_FixedArray(a.ret)) :
                   a \in {deserialize_token_array(st, payload[1])}})
      [] kind = 8 -> Only({IF Trapped(a) THEN a ELSE Ret(a, Token_Array(a.ret)) :
                   a \in {deserialize_token_array(st, payload[1])}})
      [] kind = 9 -> Only({IF Trapped(a) THEN a ELSE Ret(a, Token_Tuple(a.ret)) :
                   a \in {deserialize_token_array(st, payload[1])}})
      [] OTHER -> Ret(st, Token_Bool(FALSE))

deserialize_token(st, ptr) ==
    IF Trapped(st) THEN st
    ELSE IF ptr = U(0) THEN Ret(st, Token_Bool(FALSE))
    ELSE Only({IF Trapped(h) THEN h
               ELSE token_of_kind(h, AsI32(read_u32_at(h.mem, ptr, 0)),
                                  <<read_u32_at(h.mem, ptr, 8), read_u32_at(h.mem, ptr, 12)>>) :
                 h \in {Load(Deref(st, ptr, AlignOfAscEnumHeader), ptr, SizeOfAscEnumHeader)}})

\* for i in 0..length as usize: read slot i, decode, push (i counts from 1).
deserialize_tokens(st, buffer_ptr, length, i, tokens) ==
    IF Trapped(st) THEN st
    ELSE IF i > length THEN Ret(st, tokens)
    ELSE Only({IF Trapped(t) THEN t
               ELSE deserialize_tokens(t, buffer_ptr, length, i + 1, Append(tokens, t.ret)) :
                 t \in {deserialize_token(a, read_u32_at(a.mem, buffer_ptr, 4 * (i - 1))) :
                          a \in {load_u32_at(st, buffer_ptr, 4 * (i - 1))}}})

deserialize_token_array(st, ptr) ==
    IF Trapped(st) THEN st
    ELSE IF ptr = U(0) THEN Ret(st, << >>)
    ELSE Only({IF Trapped(h) THEN h
               ELSE IF read_u32_at(h.mem, ptr, 0) = U(0)
                       \/ AsI32(read_u32_at(h.mem, ptr, 12)) <= 0
               THEN Ret(h, << >>)
               ELSE deserialize_tokens(h, read_u32_at(h.mem, ptr, 0),
                                       AsI32(read_u32_at(h.mem, ptr, 12)), 1, << >>) :
                 h \in {load_array_header(st, ptr)}})

\* -------------------------------------------------------------------------
\* The handler model: the host lays out the argument of a handler in the
\* module's memory (through __new), calls the handler export, and serves the
\* imports its body calls.
\* -------------------------------------------------------------------------

\* What the host writes into an object: bytes, the pointer of the k-th object
\* of the graph it is building, or a 32-bit word.
B(bs) == <<"bytes", bs>>
R(k) == <<"ref", k>>
W(n) == <<"word", U(n)>>
Opt(present, k) == IF present THEN R(k) ELSE W(0)

RECURSIVE ItemBytes(_, _)
ItemBytes(items, ptrs) ==
    IF items = << >> THEN << >>
    ELSE (CASE Head(items)[1] = "bytes" -> Head(items)[2]
            [] Head(items)[1] = "ref" -> Bytes32(ptrs[Head(items)[2]])
            [] OTHER -> Bytes32(Head(items)[2]))
         \o ItemBytes(Tail(items), ptrs)

\* The host allocates an object with __new and fills it.
host_object(st, class_id, bytes) ==
    Only({Store(a, a.ret, bytes) :
            a \in {asc_alloc(st, U(Len(bytes)), U(class_id), "host")}})

\* The host builds a graph, pointees first; the last object is the root.
RECURSIVE host_graph(_, _, _, _)
host_graph(st, objects, i, ptrs) ==
    IF Trapped(st) THEN st
    ELSE IF i > Len(objects) THEN Ret(st, ptrs[Len(ptrs)])
    ELSE Only({IF Trapped(a) THEN a
               ELSE host_graph(a, objects, i + 1, Append(ptrs, a.ret)) :
                 a \in {host_object(st, objects[i][1], ItemBytes(objects[i][2], ptrs))}})

\* Objects 1..4 of every record graph: a hash, an address, a number, "a".
Leaves ==
    <<<<class_id_ARRAY_BUFFER, <<B(<<1, 2, 3>>)>>>>,
      <<class_id_ARRAY_BUFFER, <<B([i \in 1..20 |-> i])>>>>,
      <<class_id_ARRAY_BUFFER, <<B(<<7, 0, 0, 0>>)>>>>,
      <<class_id_STRING, <<B(<<97, 0>>)>>>>>>

\* The records as the decoders read them (block_offsets, tx_offsets,
\* receipt_offsets, event_offsets); o is the set of optional fields present.
BlockObject(o) ==
    <<class_id_OBJECT,
      <<R(1), R(1), R(1), R(2), R(1), R(1), R(1), R(3), R(3), R(3), R(3), R(3), R(3),
        Opt("size" \in o, 3), Opt("base_fee_per_gas" \in o, 3)>>>>
TransactionObject(o) ==
    <<class_id_OBJECT,
      <<R(1), R(3), R(2), Opt("to" \in o, 2), R(3), R(3), R(3), R(1), R(3)>>>>
ReceiptObject(o) ==
    <<class_id_OBJECT,
      <<R(1), R(3), R(1), R(3), R(3), R(3), Opt("contract_address" \in o, 2),
        R(3), R(1), R(1)>>>>

\* Objects 5..12: block, transaction, a second address, and the Array of three
\* EventParam (name, value) whose values are what TransferParams reads: an
\* address, another address, and a number.
EventParts(o) ==
    <<BlockObject(o), TransactionObject(o),
      <<class_id_ARRAY_BUFFER, <<B([i \in 1..20 |-> 100 + i])>>>>,
      <<class_id_OBJECT, <<R(4), R(2)>>>>,
      <<class_id_OBJECT, <<R(4), R(7)>>>>,
      <<class_id_OBJECT, <<R(4), R(3)>>>>,
      <<class_id_ARRAY_BUFFER, <<R(8), R(9), R(10)>>>>,
      <<class_id_ARRAY_PTR, <<R(11), W(0), W(12), W(3)>>>>>>
EventObject(o) ==
    <<class_id_OBJECT,
      <<R(2), R(3), R(3), Opt("log_type" \in o, 4), Opt("block" \in o, 5),
        Opt("transaction" \in o, 6), Opt("params" \in o, 12), Opt("receipt" \in o, 13)>>>>

EventOpts ==
    {{},
     {"block", "transaction", "params"},
     {"log_type", "receipt"},
     {"block", "size", "transaction", "to", "params", "receipt", "contract_address"},
     {"log_type", "block", "size", "base_fee_per_gas", "transaction", "to", "params",
      "receipt", "contract_address"}}

\* The graphs the host builds for a value of each type.
Graphs(type) ==
    CASE type \in {"String", "OptString"} -> {<<Leaves[4]>>}
      [] type \in {"Vec<u8>", "Bytes"} -> {<<Leaves[1]>>}
      [] type = "Address" -> {<<Leaves[2]>>}
      [] type = "BigInt" -> {<<Leaves[3]>>}
      [] type = "Block" ->
           {Leaves \o <<BlockObject(o)>> : o \in SUBSET {"size", "base_fee_per_gas"}}
      [] type = "Transaction" -> {Leaves \o <<TransactionObject(o)>> : o \in SUBSET {"to"}}
      [] type = "TransactionReceipt" ->
           {Leaves \o <<ReceiptObject(o)>> : o \in SUBSET {"contract_address"}}
      [] type = "TransferParams" -> {Leaves \o EventParts({})}
      [] type = "Event" ->
           {Leaves \o EventParts(o) \o <<ReceiptObject(o), EventObject(o)>> : o \in EventOpts}
      [] type = "Entity" ->
           {<<<<class_id_TYPED_MAP, <<W(0)>>>>>>,
            <<Leaves[4],
              <<class_id_STORE_VALUE, <<W(StoreValueKind_String), W(0), R(1), W(0)>>>>,
              <<class_id_TYPED_MAP_ENTRY, <<R(1), R(2)>>>>,
              <<class_id_TYPED_MAP_ENTRY, <<W(0), W(0)>>>>,
              <<class_id_ARRAY_BUFFER, <<W(0), R(4), R(3)>>>>,
              <<class_id_ARRAY_PTR, <<R(5), W(0), W(12), W(3)>>>>,
              <<class_id_TYPED_MAP, <<R(6)>>>>>>}
      [] type = "Tokens" ->
           {<<<<class_id_ARRAY_PTR, <<W(0), W(0), W(0), W(0)>>>>>>,
            <<<<class_id_OBJECT, <<W(5), W(0), W(1), W(0)>>>>,
              <<class_id_ARRAY_BUFFER, <<W(0), R(1)>>>>,
              <<class_id_ARRAY_PTR, <<R(2), W(0), W(8), W(2)>>>>>>}
      [] OTHER -> {}

\* The parameter types of the handlers: every FromAscPtr implementation.
HandlerTypes ==
    {"String", "Vec<u8>", "bool", "i32", "u32", "Address", "Bytes", "BigInt", "Block",
     "Transaction", "TransactionReceipt", "TransferParams", "Event"}

\* Before a handler the host builds its argument, or the result of a contract
\* call; inside store.get it builds the entity it returns.
GraphTypes == IF ctl = "host" THEN HandlerTypes \cup {"Tokens"} ELSE {"Entity"}

host_build ==
    /\ Live /\ ctl \in {"host", "import"}
    /\ Cardinality({i \in DOMAIN allocs : allocs[i].who = "host"}) < MaxHostNew
    /\ \E type \in GraphTypes : \E objects \in Graphs(type) :
         \E r \in {host_graph(Cur, objects, 1, << >>)} :
             /\ Commit(r)
             /\ last' = [op |-> "host_build", arg |-> type, ret |-> Result(r)]
    /\ UNCHANGED <<env, imports, ctl>>

\* The pointers a handler export is called with: null, what the host has just
\* built for it, or any word for the types that are the word itself.
HandlerPtrs(type) ==
    {U(0)}
    \cup (IF last.op = "host_build" /\ last.arg = type THEN {last.ret} ELSE {})
    \cup (IF type \in {"bool", "i32", "u32"} THEN {<<65535, 65535>>} ELSE {})

\* The export the handler macro generates: the parameter is decoded, then
\* the handler's body is entered with it. A panic ends the instance.
handler_export ==
    /\ Live /\ ctl = "host" /\ last.op \in {"none", "host_build"}
    /\ \E type \in HandlerTypes : \E ptr \in HandlerPtrs(type) :
         \E r \in {from_asc_ptr(Cur, type, ptr)} :
             /\ Commit(r)
             /\ ctl' = IF Trapped(r) THEN "host" ELSE "module"
             /\ last' = [op |-> "handler", arg |-> <<type, ptr>>, ret |-> Result(r)]
    /\ UNCHANGED <<env, imports>>

\* The body of store::get up to the import.
store_get_run(st, entity_type, id) ==
    Only({Only({[st |-> i, args |-> <<t.ret, i.ret>>] :
                  i \in {str_to_asc(t, id)}}) :
            t \in {str_to_asc(st, entity_type)}})

\* store::get(entity_type, id), up to the import.
store_get ==
    /\ Live /\ ctl = "module" /\ Len(imports) < MaxOps
    /\ \E r \in {store_get_run(Cur, str_T, str_a)} :
         /\ Commit(r.st)
         /\ CallImport(r.st, "store.get", r.args)
         /\ last' = [op |-> "store::get", arg |-> <<str_T, str_a>>,
                     ret |-> IF Trapped(r.st) THEN NoPtr ELSE r.args]
    /\ UNCHANGED env

\* What store.get returns: null, or the entity the host has just built.
StoreGetResults ==
    {U(0)} \cup (IF last.op = "host_build" /\ last.arg = "Entity" THEN {last.ret} ELSE {})

\* if result == 0 { None } else { Some(deserialize_entity(..)) }
store_get_result(st, result) ==
    IF result = U(0) THEN Ret(st, None)
    ELSE Only({IF Trapped(a) THEN a ELSE Ret(a, Some(a.ret)) :
                 a \in {deserialize_entity(st, result)}})

\* store::get from the return of the import on.
store_get_return ==
    /\ Live /\ ctl = "import" /\ imports[Len(imports)].name = "store.get"
    /\ \E result \in StoreGetResults :
         \E r \in {store_get_result(Cur, result)} :
             /\ Commit(r)
             /\ last' = [op |-> "store::get return", arg |-> result, ret |-> Result(r)]
    /\ ctl' = "module"
    /\ UNCHANGED <<env, imports>>

\* The arrays of the host a result pointer of ethereum.call can be.
TokenArrays ==
    {U(0)} \cup {allocs[i].ptr : i \in {j \in DOMAIN allocs :
                     allocs[j].who = "host" /\ allocs[j].class_id = U(class_id_ARRAY_PTR)}}

\* The decoding of the result of ethereum.call. (What ethereum::call sends is
\* not modelled: the class ids of its objects are not defined in allocator.rs.)
deserialize_token_array_of_result ==
    /\ Live /\ ctl = "module"
    /\ \E ptr \in TokenArrays :
         \E r \in {deserialize_token_array(Cur, ptr)} :
             /\ Commit(r)
             /\ last' = [op |-> "deserialize_token_array", arg |-> ptr, ret |-> Result(r)]
    /\ UNCHANGED <<env, imports, ctl>>

NextHandler ==
    \/ host_build
    \/ handler_export
    \/ store_get
    \/ store_get_return
    \/ deserialize_token_array_of_result

SpecHandler == InitStore /\ [][NextHandler]_vars

\* -------------------------------------------------------------------------
\* Claims about null pointers
\* -------------------------------------------------------------------------

\* ptr is a BigInt zero the module has made: a 4-byte buffer of zeros.
ZeroBigInt(ptr) ==
    /\ \E i \in ModuleObjects :
         /\ allocs[i].ptr = ptr
         /\ allocs[i].size = U(4)
         /\ allocs[i].class_id = U(class_id_ARRAY_BUFFER)
    /\ \A k \in 0..3 : Rd8(mem, Add32(ptr, U(k))) = 0

\* v is the zero value of a field of the given type.
ZeroField(type, v) ==
    CASE type = "Bytes" -> v = << >>
      [] type = "Address" -> v = Address_zero
      [] type = "BigInt" -> ZeroBigInt(v)
      [] OTHER -> v = None

\* rec has exactly the fields listed, each with its zero value.
ZeroRecord(fields, rec) ==
    /\ DOMAIN rec = {fields[i][1] : i \in DOMAIN fields}
    /\ \A i \in DOMAIN fields : ZeroField(fields[i][3], rec[fields[i][1]])

\* v is what decoding a null pointer as the given type is to give.
NullValue(type, v) ==
    CASE type \in {"String", "Vec<u8>", "Bytes"} -> v = << >>
      [] type = "bool" -> v = FALSE
      [] type = "i32" -> v = 0
      [] type \in {"u32", "BigInt"} -> v = U(0)
      [] type = "Address" -> v = Address_zero
      [] type = "Block" -> ZeroRecord(block_fields, v)
      [] type = "Transaction" -> ZeroRecord(tx_fields, v)
      [] type = "TransactionReceipt" -> ZeroRecord(receipt_fields, v)
      [] type = "TransferParams" -> ZeroRecord(transfer_params_fields, v)
      [] OTHER -> FALSE

OptionTypes == {"OptBigInt", "OptAddress", "OptString", "OptReceipt"}

\* Each optional field of the record decoded from ptr is None exactly when
\* its 4-byte field is 0.
OptFieldsOk(fields, ptr, rec) ==
    \A i \in DOMAIN fields :
        fields[i][3] \in OptionTypes =>
            (rec[fields[i][1]] = None <=> read_u32_at(mem, ptr, fields[i][2]) = U(0))

\* A record inside an event: the zero record when its pointer field is 0,
\* and its own optional fields follow their 4-byte fields when it is not.
InnerOk(fields, ptr, rec) ==
    IF ptr = U(0) THEN ZeroRecord(fields, rec) ELSE OptFieldsOk(fields, ptr, rec)

RecordDecoded(type, ptr, rec) ==
    CASE type = "Block" -> OptFieldsOk(block_fields, ptr, rec)
      [] type = "Transaction" -> OptFieldsOk(tx_fields, ptr, rec)
      [] type = "TransactionReceipt" -> OptFieldsOk(receipt_fields, ptr, rec)
      [] type = "Event" ->
           /\ OptFieldsOk(event_fields, ptr, rec)
           /\ InnerOk(block_fields, read_u32_at(mem, ptr, 16), rec.block)
           /\ InnerOk(tx_fields, read_u32_at(mem, ptr, 20), rec.transaction)
           /\ read_u32_at(mem, ptr, 24) = U(0)
                => ZeroRecord(transfer_params_fields, rec.params)
           /\ rec.receipt # None
                => OptFieldsOk(receipt_fields, read_u32_at(mem, ptr, 28), rec.receipt[1])
      [] OTHER -> TRUE

\* The entries array of the entity map at ptr.
EntriesOf(ptr) == read_u32_at(mem, ptr, 0)

\* C7 (as the code has it): decoding pointer 0 returns the zero value of the
\* type and does not trap for every decoder but Event<P>, which panics: a
\* string or byte decoder gives the empty value, Address the zero address,
\* BigInt a null handle, bool/i32/u32 false/0/0, Block, Transaction,
\* TransactionReceipt and the generated params a record of empty bytes, zero
\* addresses, None options and newly allocated BigInt zeros; store::get gives
\* None for result 0; a null value pointer decodes to Value::Null, a null key
\* to "", a null entry is skipped; a null token array is empty and a null
\* token is Bool(false). In a decoded record each optional field is None
\* exactly when its 4-byte field is 0, and a record whose pointer field in an
\* event is 0 is the zero record.
C7_NullDecodesToZero ==
    /\ (last.op = "handler" /\ last.arg[2] = U(0))
         => IF last.arg[1] = "Event" THEN trap = "panic"
            ELSE trap = "none" /\ NullValue(last.arg[1], last.ret)
    /\ (last.op = "handler" /\ last.arg[2] # U(0) /\ trap = "none")
         => RecordDecoded(last.arg[1], last.arg[2], last.ret)
    /\ (last.op = "store::get return" /\ last.arg = U(0))
         => trap = "none" /\ last.ret = None
    /\ (last.op = "store::get return" /\ last.arg # U(0) /\ trap = "none"
          /\ EntriesOf(last.arg) # U(0))
         => /\ Len(last.ret[1])
                 <= Cardinality({k \in 1..AsI32(read_u32_at(mem, EntriesOf(last.arg), 12)) :
                                   Slot(EntriesOf(last.arg), k) # U(0)})
            /\ \A k \in 1..AsI32(read_u32_at(mem, EntriesOf(last.arg), 12)) :
                 LET entry == Slot(EntriesOf(last.arg), k)
                 IN  (entry # U(0) /\ read_u32_at(mem, entry, 0) = U(0)
                        /\ read_u32_at(mem, entry, 4) = U(0))
                       => \E j \in DOMAIN last.ret[1] : last.ret[1][j] = <<<< >>, Value_Null>>
    /\ (last.op = "deserialize_token_array" /\ last.arg = U(0))
         => trap = "none" /\ last.ret = << >>
    /\ (last.op = "deserialize_token_array" /\ last.arg # U(0) /\ trap = "none")
         => \A k \in DOMAIN last.ret :
              Slot(last.arg, k) = U(0) => last.ret[k] = Token_Bool(FALSE)

\* A handler taking a Block was called with pointer 0 and its body was
\* entered with the zero block.
C7_Witness ==
    /\ last.op = "handler" /\ last.arg = <<"Block", U(0)>>
    /\ trap = "none" /\ ctl = "module"
    /\ ZeroRecord(block_fields, last.ret)
    /\ ZeroBigInt(last.ret.number)

\* C7 as stated: no decoder traps on pointer 0, Event<P> included.
C7_EveryDecoderNullTolerant ==
    (/\ last.op \in {"handler", "store::get return", "deserialize_token_array"}
     /\ (IF last.op = "handler" THEN last.arg[2] ELSE last.arg) = U(0))
        => trap = "none"

\* C8: a handler export called with event pointer 0 panics while decoding:
\* the body is not entered, no import has been called, and nothing runs
\* after the trap. Called with a non-zero event pointer whose receipt field
\* (offset 28) is 0, it decodes receipt = None and enters the body.
C8_NullEventTraps ==
    /\ [](/\ (last.op = "handler" /\ last.arg = <<"Event", U(0)>>)
               => trap = "panic" /\ ctl # "module" /\ imports = << >>
          /\ (last.op = "handler" /\ last.arg[1] = "Event" /\ last.arg[2] # U(0)
                /\ read_u32_at(mem, last.arg[2], 28) = U(0))
               => trap = "none" /\ last.ret.receipt = None /\ ctl = "module")
    /\ [][trap # "none" => UNCHANGED <<imports, ctl, last, allocs, mem>>]_vars

\* An event without a receipt was decoded and the body entered.
C8_Witness ==
    /\ last.op = "handler" /\ last.arg[1] = "Event" /\ last.arg[2] # U(0)
    /\ read_u32_at(mem, last.arg[2], 28) = U(0)
    /\ last.ret.receipt = None
    /\ last.ret.block.number # U(0)
    /\ ctl = "module" /\ trap = "none"

\* -------------------------------------------------------------------------
\* The codec model: the module encodes strings, bytes, values and entities
\* into its memory, allocates in between, and decodes variants the host has
\* written.
\* -------------------------------------------------------------------------

\* "", "Hi", "a", U+00E9, U+1F600 (a surrogate pair), "a" U+1F600
CodecStrings == {<< >>, <<72, 105>>, <<97>>, <<233>>, <<128512>>, <<97, 128512>>}

CodecBytes == {<< >>, <<1, 2, 3>>, <<255, 0, 7, 9, 200>>}

\* "bool_flag", "id", "value", "a-0", "b", "c", "d", "n"
str_bool_flag == <<98, 111, 111, 108, 95, 102, 108, 97, 103>>
str_value == <<118, 97, 108, 117, 101>>
str_a_0 == <<97, 45, 48>>
str_b == <<98>>
str_c == <<99>>
str_d == <<100>>
str_n == <<110>>

\* A handle of a big number of the host (0x100).
HostHandle == <<0, 256>>

\* Values of every variant: the extremes of i32, nested and empty arrays.
CodecValues ==
    <<Value_String(<< >>), Value_String(<<72, 105>>),
     Value_Int(0), Value_Int(1), Value_Int(-1), Value_Int(2147483647),
     Value_Int(-2147483647),
     Value_Int8(0), Value_Int8(7), Value_Int8(-1),
     Value_BigInt(HostHandle), Value_BigDecimal(HostHandle),
     Value_Bool(TRUE), Value_Bool(FALSE),
     Value_Bytes(<< >>), Value_Bytes(<<1, 2, 3>>),
     Value_Array(<< >>),
     Value_Array(<<Value_Int(-1), Value_String(<<97>>)>>),
     Value_Array(<<Value_Array(<< >>), Value_Array(<<Value_Null, Value_Bool(TRUE)>>)>>),
     Value_Null>>

\* Entities, each in key order: the empty one, the one of the specification's
\* example, one with every variant.
CodecEntities ==
    <<<< >>,
     <<<<str_bool_flag, Value_Bool(TRUE)>>, <<str_id, Value_String(str_a_0)>>,
       <<str_value, Value_BigInt(HostHandle)>>>>,
     <<<<str_a, Value_Array(<<Value_Array(<< >>), Value_Int(-1), Value_Bytes(<<1, 2, 3>>)>>)>>,
       <<str_b, Value_BigDecimal(HostHandle)>>, <<str_c, Value_Int8(-1)>>,
       <<str_d, Value_Bool(FALSE)>>, <<str_e, Value_Array(<< >>)>>,
       <<str_n, Value_Null>>, <<str_t, Value_Int(-2147483647)>>>>>>

\* The encoders, each as the first thing the module does.
call_str_to_asc ==
    /\ Live /\ ctl = "module" /\ allocs = << >>
    /\ \E s \in CodecStrings : \E r \in {str_to_asc(Cur, s)} :
         /\ Commit(r)
         /\ last' = [op |-> "str_to_asc", arg |-> s, ret |-> Result(r)]
    /\ UNCHANGED <<env, imports, ctl>>

call_bytes_to_asc ==
    /\ Live /\ ctl = "module" /\ allocs = << >>
    /\ \E b \in CodecBytes : \E r \in {bytes_to_asc(Cur, b)} :
         /\ Commit(r)
         /\ last' = [op |-> "bytes_to_asc", arg |-> b, ret |-> Result(r)]
    /\ UNCHANGED <<env, imports, ctl>>

call_serialize_value ==
    /\ Live /\ ctl = "module" /\ allocs = << >>
    /\ \E k \in DOMAIN CodecValues : \E r \in {serialize_value(Cur, CodecValues[k])} :
         /\ Commit(r)
         /\ last' = [op |-> "serialize_value", arg |-> CodecValues[k], ret |-> Result(r)]
    /\ UNCHANGED <<env, imports, ctl>>

call_serialize_entity ==
    /\ Live /\ ctl = "module" /\ allocs = << >>
    /\ \E k \in DOMAIN CodecEntities : \E r \in {serialize_entity(Cur, CodecEntities[k])} :
         /\ Commit(r)
         /\ last' = [op |-> "serialize_entity", arg |-> CodecEntities[k], ret |-> Result(r)]
    /\ UNCHANGED <<env, imports, ctl>>

\* A tagged variant as the host writes it: kind, padding, payload low and high.
Variant(kind, low, high) ==
    <<class_id_STORE_VALUE, <<<<"word", AsU32(kind)>>, W(0), low, high>>>>

\* The kinds the host writes: the ten of the table and kinds outside it.
HostKinds == {-1, 0, 1, 2, 3, 4, 5, 6, 7, 8, 9, 10, 42, 2147483647}

\* The variant of each kind with what it refers to: "a", the bytes 1 2 3, a
\* number, an array of one null; -1 inline for the integers.
VariantGraph(kind) ==
    CASE kind = 0 -> <<Leaves[4], Variant(0, R(1), W(0))>>
      [] kind = 1 -> <<Variant(1, <<"word", <<65535, 65535>>>>, W(0))>>
      [] kind = 4 ->
           <<<<class_id_ARRAY_BUFFER, <<W(0)>>>>,
             <<class_id_ARRAY_STORE_VALUE, <<R(1), W(0), W(4), W(1)>>>>,
             Variant(4, R(2), W(0))>>
      [] kind = 6 -> <<Leaves[1], Variant(6, R(1), W(0))>>
      [] kind = 8 ->
           <<Variant(8, <<"word", <<65535, 65535>>>>, <<"word", <<65535, 65535>>>>)>>
      [] kind \in {2, 7} -> <<Leaves[3], Variant(kind, R(1), W(0))>>
      [] OTHER -> <<Variant(kind, W(1), W(0))>>

\* The host writes a tagged variant before it calls the module for the first
\* time.
host_variant ==
    /\ Live /\ ctl = "host" /\ allocs = << >>
    /\ \E kind \in HostKinds : \E r \in {host_graph(Cur, VariantGraph(kind), 1, << >>)} :
         /\ Commit(r)
         /\ last' = [op |-> "host_variant", arg |-> kind, ret |-> Result(r)]
    /\ UNCHANGED <<env, imports, ctl>>

\* The tagged variants in memory, and null.
VariantPtrs ==
    {U(0)} \cup {allocs[i].ptr : i \in {j \in DOMAIN allocs :
                    allocs[j].size = U(SizeOfAscEnumHeader)}}

\* The decoders, each as the first thing the handler does.
call_deserialize_value ==
    /\ Live /\ ctl = "module" /\ last.op = "handler"
    /\ \E ptr \in VariantPtrs : \E r \in {deserialize_value(Cur, ptr)} :
         /\ Commit(r)
         /\ last' = [op |-> "deserialize_value", arg |-> ptr, ret |-> Result(r)]
    /\ UNCHANGED <<env, imports, ctl>>

call_deserialize_token ==
    /\ Live /\ ctl = "module" /\ last.op = "handler"
    /\ \E ptr \in VariantPtrs : \E r \in {deserialize_token(Cur, ptr)} :
         /\ Commit(r)
         /\ last' = [op |-> "deserialize_token", arg |-> ptr, ret |-> Result(r)]
    /\ UNCHANGED <<env, imports, ctl>>

NextCodec ==
    \/ host_variant
    \/ HandlerEnter
    \/ AscAlloc
    \/ call_str_to_asc
    \/ call_bytes_to_asc
    \/ call_serialize_value
    \/ call_serialize_entity
    \/ call_deserialize_value
    \/ call_deserialize_token

SpecCodec == InitStore /\ [][NextCodec]_vars

\* -------------------------------------------------------------------------
\* Claims about the codecs
\* -------------------------------------------------------------------------

\* The kind and the 64-bit payload <<low, high>> of the variant at ptr.
KindAt(ptr) == AsI32(read_u32_at(mem, ptr, 0))
PayloadAt(ptr) == <<read_u32_at(mem, ptr, 8), read_u32_at(mem, ptr, 12)>>

\* p is a 32-bit pointer in the 64-bit slot: null, a handle of the host, or
\* an object in memory.
IsWirePointer(p) ==
    /\ p[2] = U(0)
    /\ p[1] \in {U(0), HostHandle} \cup {allocs[i].ptr : i \in DOMAIN allocs}

\* p points to a module object of the given class.
PointsTo(p, class_id) ==
    /\ p[2] = U(0)
    /\ \E i \in ModuleObjects : allocs[i].ptr = p[1] /\ allocs[i].class_id = U(class_id)

\* The payload of an integer i: its two's complement, sign-extended.
SignExtended(p, i) ==
    /\ AsI32(p[1]) = i
    /\ p[2] = IF i < 0 THEN <<65535, 65535>> ELSE U(0)

Serialized == last.op = "serialize_value" /\ trap = "none"

\* C11 (as the code has it): serialize_value inlines Bool as 0 or 1, Int as
\* the i32 sign-extended to 64 bits (decoding returns the same i32, negatives
\* included) and Int8 as the i64 itself; Null has payload 0; String, Bytes and
\* Array hold a zero-extended 32-bit pointer to the object just encoded,
\* BigInt and BigDecimal the handle.
C11_PayloadInlineOrPointer ==
    Serialized =>
        LET v == last.arg
            p == PayloadAt(last.ret)
        IN  CASE v.tag = "Bool" -> p = <<IF v.v THEN U(1) ELSE U(0), U(0)>>
              [] v.tag = "Int" ->
                   /\ SignExtended(p, v.v)
                   /\ deserialize_value(Cur, last.ret).ret = v
              [] v.tag = "Int8" -> SignExtended(p, v.v)
              [] v.tag = "Null" -> p = <<U(0), U(0)>>
              [] v.tag = "String" -> PointsTo(p, class_id_STRING)
              [] v.tag = "Bytes" -> PointsTo(p, class_id_ARRAY_BUFFER)
              [] v.tag = "Array" -> PointsTo(p, class_id_ARRAY_STORE_VALUE)
              [] OTHER -> p = <<v.v, U(0)>>

\* A negative Int was encoded: its payload is 64 one-bits.
C11_Witness ==
    /\ Serialized
    /\ last.arg.tag = "Int" /\ last.arg.v = -1
    /\ PayloadAt(last.ret) = <<<<65535, 65535>>, <<65535, 65535>>>>

\* C11 as stated: every variant but Bool and Int holds a 32-bit pointer.
C11_OthersArePointers ==
    Serialized =>
        CASE last.arg.tag = "Bool" -> PayloadAt(last.ret) \in {<<U(0), U(0)>>, <<U(1), U(0)>>}
          [] last.arg.tag = "Int" -> SignExtended(PayloadAt(last.ret), last.arg.v)
          [] OTHER -> IsWirePointer(PayloadAt(last.ret))

\* The kind of the table for each variant of Value.
KindOf(tag) ==
    CASE tag = "String" -> 0 [] tag = "Int" -> 1 [] tag = "BigDecimal" -> 2
      [] tag = "Bool" -> 3 [] tag = "Array" -> 4 [] tag = "Null" -> 5
      [] tag = "Bytes" -> 6 [] tag = "BigInt" -> 7 [] tag = "Int8" -> 8

\* The variant at ptr is a class-1003 object with the kind and the payload
\* of the value v.
EncodedAs(v, ptr) ==
    /\ ClassOf(ptr) = class_id_STORE_VALUE
    /\ KindAt(ptr) = KindOf(v.tag)
    /\ CASE v.tag = "Bool" -> PayloadAt(ptr) = <<IF v.v THEN U(1) ELSE U(0), U(0)>>
         [] v.tag \in {"Int", "Int8"} -> SignExtended(PayloadAt(ptr), v.v)
         [] v.tag = "Null" -> PayloadAt(ptr) = <<U(0), U(0)>>
         [] v.tag = "String" ->
              /\ PointsTo(PayloadAt(ptr), class_id_STRING)
              /\ asc_to_string(Cur, PayloadAt(ptr)[1]).ret = v.v
         [] v.tag = "Bytes" ->
              /\ PointsTo(PayloadAt(ptr), class_id_ARRAY_BUFFER)
              /\ asc_to_bytes(Cur, PayloadAt(ptr)[1]).ret = v.v
         [] v.tag = "Array" -> PointsTo(PayloadAt(ptr), class_id_ARRAY_STORE_VALUE)
         [] OTHER -> PayloadAt(ptr) = <<v.v, U(0)>>

\* The place of the object at ptr in the order of allocation.
AllocIndex(ptr) == CHOOSE i \in DOMAIN allocs : allocs[i].ptr = ptr

\* Entry k (from 1) of the entity map at map, its key and its value.
EntryAt(map, k) == Slot(EntriesOf(map), k)
KeyAt(map, k) == asc_to_string(Cur, read_u32_at(mem, EntryAt(map, k), 0)).ret
ValueAt(map, k) == read_u32_at(mem, EntryAt(map, k), 4)

EntitySerialized == last.op = "serialize_entity" /\ trap = "none"

\* C12: serialize_entity on an entity with n fields returns a class-1001
\* object whose entries field points to a class-1000 Array of length n whose
\* buffer holds n class-1002 entry pointers; each field name is the key of
\* exactly one entry, whose value is a class-1003 variant with the kind and
\* payload of the field's value; the entries are allocated before the Array
\* header, and the Array header before the map.
C12_EntityLayout ==
    EntitySerialized =>
        LET e == last.arg
            map == last.ret
            n == Len(last.arg)
        IN  /\ ClassOf(map) = class_id_TYPED_MAP
            /\ ClassOf(EntriesOf(map)) = class_id_ARRAY_PTR
            /\ AsI32(read_u32_at(mem, EntriesOf(map), 12)) = n
            /\ read_rt_size(mem, read_u32_at(mem, EntriesOf(map), 0)) = U(4 * n)
            /\ \A k \in 1..n :
                 /\ ClassOf(EntryAt(map, k)) = class_id_TYPED_MAP_ENTRY
                 /\ AllocIndex(EntryAt(map, k)) < AllocIndex(EntriesOf(map))
            /\ AllocIndex(EntriesOf(map)) < AllocIndex(map)
            /\ \A i \in 1..n :
                 /\ Cardinality({k \in 1..n : KeyAt(map, k) = e[i][1]}) = 1
                 /\ \A k \in 1..n :
                      KeyAt(map, k) = e[i][1] => EncodedAs(e[i][2], ValueAt(map, k))

\* The entity of the example was encoded: three entries, "id" of kind 0,
\* "value" of kind 7 with the handle, "bool_flag" of kind 3 with payload 1.
C12_Witness ==
    /\ EntitySerialized
    /\ Len(last.arg) = 3
    /\ {KeyAt(last.ret, k) : k \in 1..3} = {str_id, str_value, str_bool_flag}
    /\ \A k \in 1..3 :
         /\ KeyAt(last.ret, k) = str_id => KindAt(ValueAt(last.ret, k)) = 0
         /\ KeyAt(last.ret, k) = str_value
              => /\ KindAt(ValueAt(last.ret, k)) = 7
                 /\ PayloadAt(ValueAt(last.ret, k)) = <<HostHandle, U(0)>>
         /\ KeyAt(last.ret, k) = str_bool_flag
              => /\ KindAt(ValueAt(last.ret, k)) = 3
                 /\ PayloadAt(ValueAt(last.ret, k)) = <<U(1), U(0)>>

\* C13: decoding what serialize_entity has encoded gives the entity back, the
\* same keys with equal values (big numbers by handle), and decoding what
\* serialize_value has encoded gives the value back: every array, nested or
\* empty, with the same length and order.
C13_EntityRoundTrip ==
    /\ EntitySerialized =>
         /\ ~Trapped(deserialize_entity(Cur, last.ret))
         /\ deserialize_entity(Cur, last.ret).ret = last.arg
    /\ Serialized =>
         /\ ~Trapped(deserialize_value(Cur, last.ret))
         /\ deserialize_value(Cur, last.ret).ret = last.arg

\* The entity with every variant was encoded and decodes to itself; its
\* nested array has three elements, the first an empty array.
C13_Witness ==
    /\ EntitySerialized
    /\ Len(last.arg) = 7
    /\ deserialize_entity(Cur, last.ret).ret = last.arg
    /\ Len(deserialize_entity(Cur, last.ret).ret[1][2].v) = 3
    /\ deserialize_entity(Cur, last.ret).ret[1][2].v[1] = Value_Array(<< >>)

\* The variant of Value the table names for each kind.
NameOf(kind) ==
    CASE kind = 0 -> "String" [] kind = 1 -> "Int" [] kind = 2 -> "BigDecimal"
      [] kind = 3 -> "Bool" [] kind = 4 -> "Array" [] kind = 5 -> "Null"
      [] kind = 6 -> "Bytes" [] kind = 7 -> "BigInt" [] kind = 8 -> "Int8"
      [] kind = 9 -> "Timestamp"

\* A variant that is not null was decoded and the decoder returned.
ValueDecoded == last.op = "deserialize_value" /\ trap = "none" /\ last.arg # U(0)

\* C14: serialize_value writes the kind of the table for each variant, and
\* deserialize_value maps each of the kinds 0..9 to the variant of that name,
\* the inline payloads (Int, Bool, Int8, Timestamp) and the handles kept.
C14_KindTable ==
    /\ Serialized => KindAt(last.ret) = KindOf(last.arg.tag)
    /\ (ValueDecoded /\ KindAt(last.arg) \in 0..9) =>
         /\ last.ret.tag = NameOf(KindAt(last.arg))
         /\ KindAt(last.arg) = 1 => last.ret.v = AsI32(PayloadAt(last.arg)[1])
         /\ KindAt(last.arg) = 8 => last.ret.v = AsI64(PayloadAt(last.arg))
         /\ KindAt(last.arg) = 3 => last.ret.v = (PayloadAt(last.arg) # <<U(0), U(0)>>)
         /\ KindAt(last.arg) \in {2, 7} => last.ret.v = PayloadAt(last.arg)[1]
         /\ KindAt(last.arg) = 9 => last.ret.v = PayloadAt(last.arg)

\* A variant that is not null and whose kind is outside the table was handed
\* to the decoder op.
UnknownKind(op) == last.op = op /\ last.arg # U(0) /\ KindAt(last.arg) \notin 0..9

\* C15: decoding a variant whose kind is negative or greater than 9 never
\* traps and yields the null value: Value::Null from deserialize_value,
\* Token::Bool(false), the value a null token decodes to, from deserialize_token.
C15_UnknownKindIsNull ==
    /\ UnknownKind("deserialize_value") => trap = "none" /\ last.ret = Value_Null
    /\ UnknownKind("deserialize_token") => trap = "none" /\ last.ret = Token_Bool(FALSE)

\* The five header words before ptr: mmInfo, gcInfo, gcInfo2, rtId, rtSize.
HeaderAt(ptr) ==
    [k \in 1..5 |-> read_u32_at(mem, Sub32(ptr, U(HEADER_SIZE)), 4 * (k - 1))]

StrEncoded == last.op = "str_to_asc" /\ trap = "none"

\* C16: str_to_asc(s) allocates one object of class 2 whose rt_size is twice
\* the number of UTF-16 units of s and whose payload is those units in order,
\* each little-endian, nothing after them counted in; "Hi" gives the header
\* (0,0,0,2,4) and the bytes 48 00 69 00, and "" a non-null object of class 2
\* with rt_size 0.
C16_StringEncoding ==
    /\ last.op = "str_to_asc" => trap = "none"
    /\ StrEncoded =>
         /\ last.ret # U(0)
         /\ Len(allocs) = 1
         /\ allocs[1].ptr = last.ret
         /\ allocs[1].class_id = U(2)
         /\ HeaderAt(last.ret)
              = <<U(0), U(0), U(0), U(2), U(2 * Len(encode_utf16(last.arg)))>>
         /\ \A k \in 1..Len(encode_utf16(last.arg)) :
              /\ Rd8(mem, Add32(last.ret, U(2 * (k - 1)))) = encode_utf16(last.arg)[k] % 256
              /\ Rd8(mem, Add32(last.ret, U(2 * (k - 1) + 1))) = encode_utf16(last.arg)[k] \div 256
         /\ last.arg = <<72, 105>> =>
              /\ HeaderAt(last.ret) = <<U(0), U(0), U(0), U(2), U(4)>>
              /\ BytesAt(mem, last.ret, 4) = <<72, 0, 105, 0>>
         /\ last.arg = << >> => read_rt_size(mem, last.ret) = U(0)

\* "a" followed by U+1F600 was encoded: three units, the last two a surrogate
\* pair, in six bytes.
C16_Witness ==
    /\ StrEncoded
    /\ last.arg = <<97, 128512>>
    /\ read_rt_size(mem, last.ret) = U(6)
    /\ BytesAt(mem, last.ret, 6) = <<97, 0, 61, 216, 0, 222>>

\* The string at ptr decodes to s without a trap in the machine state st.
DecodesTo(st, ptr, s) ==
    /\ ~Trapped(asc_to_string(st, ptr))
    /\ asc_to_string(st, ptr).ret = s

\* The objects of class STRING the allocator has handed out.
StringObjects ==
    {allocs[i].ptr : i \in {j \in DOMAIN allocs : allocs[j].class_id = U(class_id_STRING)}}

\* C17: asc_to_string(str_to_asc(s)) = s for every string s, and no later
\* allocation changes what a string decodes to: a step that leaves the
\* instance running leaves the decoded value of every string object as it was.
C17_StringRoundTrip ==
    [][/\ StrEncoded' => DecodesTo(Cur', last'.ret, last'.arg)
       /\ (Live /\ trap' = "none") =>
            \A p \in StringObjects :
                DecodesTo(Cur', p, asc_to_string(Cur, p).ret)]_vars

BytesEncoded == last.op = "bytes_to_asc" /\ trap = "none"

\* C18: bytes_to_asc(b) allocates an object of class 1 with rt_size = len(b),
\* the empty slice included, and asc_to_bytes of its pointer returns exactly
\* b: rt_size bytes are read, not the 8-byte multiple the allocator reserved.
C18_BytesRoundTrip ==
    /\ last.op = "bytes_to_asc" => trap = "none"
    /\ BytesEncoded =>
         /\ last.ret # U(0)
         /\ Len(allocs) = 1
         /\ allocs[1].ptr = last.ret
         /\ HeaderAt(last.ret) = <<U(0), U(0), U(0), U(1), U(Len(last.arg))>>
         /\ ~Trapped(asc_to_bytes(Cur, last.ret))
         /\ asc_to_bytes(Cur, last.ret).ret = last.arg
         /\ Len(asc_to_bytes(Cur, last.ret).ret) = Len(last.arg)

\* Five bytes were encoded: the allocator reserved 32 bytes for the header and
\* the payload, and the five come back.
C18_Witness ==
    /\ BytesEncoded
    /\ last.arg = <<255, 0, 7, 9, 200>>
    /\ Sub32(allocs[1].end, allocs[1].base) = U(32)
    /\ asc_to_bytes(Cur, last.ret).ret = <<255, 0, 7, 9, 200>>

\* -------------------------------------------------------------------------
\* Event dispatch
\* -------------------------------------------------------------------------

\* The export was called with an event whose params field is set, and the
\* decoding returned.
EventDispatched ==
    /\ last.op = "handler" /\ last.arg[1] = "Event" /\ last.arg[2] # U(0)
    /\ trap = "none"
    /\ read_u32_at(mem, last.arg[2], 24) # U(0)

\* The value pointer of EventParam k (from 0) of the event at ptr: params at
\* offset 24, its buffer at offset 0, the slot, and the value at offset 4.
ParamValueOf(ptr, k) ==
    read_u32_at(mem,
                read_u32_at(mem, read_u32_at(mem, read_u32_at(mem, ptr, 24), 0), 4 * k),
                4)

\* The 20 bytes at an address value.
AddressAt(ptr) == [i \in 1..20 |-> Rd8(mem, Add32(ptr, U(i - 1)))]

\* C19: called with an event whose params field points to an Array of three
\* event params, the export decodes it and enters the handler body once, with
\* params.from and params.to the 20-byte addresses at the first and second
\* params' values and params.value the third param's value pointer.
C19_EventDispatch ==
    /\ (last.op = "handler" /\ last.arg[1] = "Event" /\ last.arg[2] # U(0))
         => trap = "none"
    /\ EventDispatched =>
         /\ ctl = "module"
         /\ read_u32_at(mem, read_u32_at(mem, last.arg[2], 24), 12) = U(3)
         /\ last.ret.params.from = AddressAt(ParamValueOf(last.arg[2], 0))
         /\ last.ret.params.to = AddressAt(ParamValueOf(last.arg[2], 1))
         /\ last.ret.params.value = ParamValueOf(last.arg[2], 2)
         /\ last.ret.params.value # U(0)

\* A transfer between two different addresses was dispatched.
C19_Witness ==
    /\ EventDispatched
    /\ ctl = "module"
    /\ last.ret.params.from = [i \in 1..20 |-> i]
    /\ last.ret.params.to = [i \in 1..20 |-> 100 + i]
    /\ last.ret.params.value = ParamValueOf(last.arg[2], 2)

\* -------------------------------------------------------------------------
\* The #[handler] attribute macro: the export's name
\* -------------------------------------------------------------------------

\* Identifiers and attribute arguments are sequences of code points, as the
\* strings of the codecs are. '_' is 95, '"' 34, '=' 61, ' ' 32.

\* Length of the generated source identifiers.
MaxNameLen == 3

\* char::to_ascii_uppercase: a..z become A..Z, every other character is itself.
to_ascii_uppercase(c) == IF c \in 97..122 THEN c - 32 ELSE c

RECURSIVE snake_to_camel_loop(_, _, _, _)
\* for c in s.chars() { .. } of snake_to_camel, from character i on.
snake_to_camel_loop(s, i, capitalize_next, result) ==
    IF i > Len(s) THEN result
    ELSE IF s[i] = 95 THEN snake_to_camel_loop(s, i + 1, TRUE, result)
    ELSE IF capitalize_next
    THEN snake_to_camel_loop(s, i + 1, FALSE, Append(result, to_ascii_uppercase(s[i])))
    ELSE snake_to_camel_loop(s, i + 1, capitalize_next, Append(result, s[i]))

\* Mutant of snake_to_camel: the first token is capitalised as well.
snake_to_camel_pascal(s) == snake_to_camel_loop(s, 1, TRUE, << >>)

snake_to_camel(s) == snake_to_camel_loop(s, 1, FALSE, << >>)

\* str::find: the offset of the first occurrence of pat in s, or -1 for None.
find(s, pat) ==
    LET hits == {i \in 0..(Len(s) - Len(pat)) : SubSeq(s, i + 1, i + Len(pat)) = pat}
    IN  IF hits = {} THEN -1 ELSE CHOOSE i \in hits : \A j \in hits : i <= j

\* &s[from..]
slice_from(s, from) == SubSeq(s, from + 1, Len(s))

\* The text between the first two quotes of after_eq, or the default.
quoted_or(after_eq, default) ==
    IF find(after_eq, <<34>>) = -1 THEN default
    ELSE IF find(slice_from(after_eq, find(after_eq, <<34>>) + 1), <<34>>) = -1 THEN default
    ELSE SubSeq(after_eq, find(after_eq, <<34>>) + 2,
                find(after_eq, <<34>>) + 1
                  + find(slice_from(after_eq, find(after_eq, <<34>>) + 1), <<34>>))

parse_handler_name(attr_args, fn_name) ==
    IF find(attr_args, <<110, 97, 109, 101>>) = -1 THEN snake_to_camel(fn_name)
    ELSE IF find(slice_from(attr_args, find(attr_args, <<110, 97, 109, 101>>)), <<61>>) = -1
    THEN snake_to_camel(fn_name)
    ELSE quoted_or(slice_from(attr_args,
                              find(attr_args, <<110, 97, 109, 101>>)
                                + find(slice_from(attr_args, find(attr_args, <<110, 97, 109, 101>>)), <<61>>)
                                + 1),
                   snake_to_camel(fn_name))

\* The names of the macro's tests and of the spec's examples.
handle_transfer == <<104, 97, 110, 100, 108, 101, 95, 116, 114, 97, 110, 115, 102, 101, 114>>
handle_pair_created == <<104, 97, 110, 100, 108, 101, 95, 112, 97, 105, 114, 95, 99, 114, 101, 97, 116, 101, 100>>
on_block == <<111, 110, 95, 98, 108, 111, 99, 107>>
simple == <<115, 105, 109, 112, 108, 101>>
handleTransfer == <<104, 97, 110, 100, 108, 101, 84, 114, 97, 110, 115, 102, 101, 114>>
handlePairCreated == <<104, 97, 110, 100, 108, 101, 80, 97, 105, 114, 67, 114, 101, 97, 116, 101, 100>>
onBlock == <<111, 110, 66, 108, 111, 99, 107>>
customHandler == <<99, 117, 115, 116, 111, 109, 72, 97, 110, 100, 108, 101, 114>>

\* The characters of the generated identifiers: a, _, Z, 1 and e-acute.
NameAlphabet == {97, 95, 90, 49, 233}

\* Rust identifiers: not empty, no digit first, and not the lone underscore.
IsIdent(s) == s # << >> /\ s[1] # 49 /\ s # <<95>>

FnNames ==
    {handle_transfer, handle_pair_created, on_block, simple}
    \cup {s \in UNION {[1..n -> NameAlphabet] : n \in 1..MaxNameLen} : IsIdent(s)}

\* The names given with name = "..": one of them with an underscore.
ExplicitNames == {customHandler, <<111, 110, 95, 120>>, <<104>>}

\* attr.to_string() of #[handler(name = "x")].
NameAttr(x) == <<110, 97, 109, 101, 32, 61, 32, 34>> \o x \o <<34>>

\* #[handler], #[handler(name)] and #[handler(name = "..")].
AttrArgs == {<< >>, <<110, 97, 109, 101>>} \cup {NameAttr(x) : x \in ExplicitNames}

\* The macro expands one handler: the export is named.
handler ==
    /\ last.op = "none"
    /\ \E attr_args \in AttrArgs : \E fn_name \in FnNames :
         last' = [op |-> "#[handler]", arg |-> <<attr_args, fn_name>>,
                  ret |-> parse_handler_name(attr_args, fn_name)]
    /\ UNCHANGED <<env, HEAP_PTR, HEAP_BASE, memory_pages, mem, trap, allocs, ctl, imports>>

NextMacro == handler

SpecMacro == InitStore /\ [][NextMacro]_vars

RECURSIVE Tokens(_, _, _)
\* s split at the underscores: the tokens before character i in acc, the one
\* being read in cur.
Tokens(s, cur, acc) ==
    IF s = << >> THEN Append(acc, cur)
    ELSE IF Head(s) = 95 THEN Tokens(Tail(s), << >>, Append(acc, cur))
    ELSE Tokens(Tail(s), Append(cur, Head(s)), acc)

\* A token with its first character upper-cased.
Capitalised(t) == IF t = << >> THEN t ELSE <<to_ascii_uppercase(t[1])>> \o Tail(t)

RECURSIVE Joined(_, _)
\* The tokens from the k-th on, concatenated, all but the first capitalised.
Joined(ts, k) ==
    IF k > Len(ts) THEN << >>
    ELSE (IF k = 1 THEN ts[k] ELSE Capitalised(ts[k])) \o Joined(ts, k + 1)

Named == last.op = "#[handler]"

\* C20: the export name is the name given with name = "..", as given; without
\* one it is the identifier's tokens (split at the underscores) concatenated,
\* every token but the first with its first character upper-cased (a..z to
\* A..Z): handle_transfer gives handleTransfer, handle_pair_created
\* handlePairCreated, on_block onBlock, simple simple. The default name has no
\* underscore, and transforming it again changes nothing.
C20_ExportName ==
    Named =>
      /\ \A x \in ExplicitNames : last.arg[1] = NameAttr(x) => last.ret = x
      /\ (\A x \in ExplicitNames : last.arg[1] # NameAttr(x)) =>
           /\ last.ret = Joined(Tokens(last.arg[2], << >>, << >>), 1)
           /\ \A i \in DOMAIN last.ret : last.ret[i] # 95
           /\ snake_to_camel(last.ret) = last.ret
           /\ last.arg[2] = handle_transfer => last.ret = handleTransfer
           /\ last.arg[2] = handle_pair_created => last.ret = handlePairCreated
           /\ last.arg[2] = on_block => last.ret = onBlock
           /\ last.arg[2] = simple => last.ret = simple

\* handle_pair_created was expanded without a name: two tokens capitalised.
C20_Witness ==
    /\ Named
    /\ last.arg = <<<< >>, handle_pair_created>>
    /\ last.ret = handlePairCreated

\* -------------------------------------------------------------------------
\* yogurt validate: the required exports of a module
\* -------------------------------------------------------------------------

\* const REQUIRED_EXPORTS
REQUIRED_EXPORTS == <<"memory", "__new", "__pin", "__unpin", "__collect">>

\* The six exports the host requires of a module.
HostRequiredExports == {"memory", "__new", "__pin", "__unpin", "__collect", "abort"}

\* The export names of the modules handed to the validator: any of the six,
\* with or without a handler.
ExportNames == HostRequiredExports \cup {"handleTransfer"}

\* for &name in REQUIRED_EXPORTS: the names no export has, in order.
RECURSIVE missing_exports(_, _, _)
missing_exports(exports, i, missing) ==
    IF i > Len(REQUIRED_EXPORTS) THEN missing
    ELSE IF \E e \in exports : e = REQUIRED_EXPORTS[i]
    THEN missing_exports(exports, i + 1, missing)
    ELSE missing_exports(exports, i + 1, Append(missing, REQUIRED_EXPORTS[i]))

\* if missing.is_empty() { Ok(()) } else { bail!(..) }
validate_result(missing) == IF missing = << >> THEN "Ok" ELSE "Err"

\* validate::run(wasm_file) on a module that parses, with the given exports.
validate_run ==
    /\ last.op = "none"
    /\ \E exports \in SUBSET ExportNames :
         last' = [op |-> "validate", arg |-> exports,
                  ret |-> validate_result(missing_exports(exports, 1, << >>))]
    /\ UNCHANGED <<env, HEAP_PTR, HEAP_BASE, memory_pages, mem, trap, allocs, ctl, imports>>

NextValidate == validate_run

SpecValidate == InitStore /\ [][NextValidate]_vars

Validated == last.op = "validate"

\* C21: the validator fails whenever one of the six required exports memory,
\* __new, __pin, __unpin, __collect, abort is missing, and passes only when
\* all six are there.
C21_ValidatorRequiresSix ==
    Validated => (last.ret = "Ok" <=> HostRequiredExports \subseteq last.arg)

\* -------------------------------------------------------------------------
\* Program order at the import boundary
\* -------------------------------------------------------------------------

\* The bytes of every object handed out so far, header and padding included.
ObjectBytes(m) ==
    [i \in DOMAIN allocs |-> BytesAt(m, allocs[i].base, Val32(Sub32(allocs[i].end, allocs[i].base)))]

\* The import call c is store.set(type, id, data) with the three objects
\* allocated and written in the machine state st.
SetCallWritten(st, c, entity_type, id, data) ==
    /\ c.name = "store.set"
    /\ Len(c.args) = 3
    /\ \A k \in 1..3 : \E i \in DOMAIN st.allocs : st.allocs[i].ptr = c.args[k]
    /\ asc_to_string(st, c.args[1]).ret = entity_type
    /\ asc_to_string(st, c.args[2]).ret = id
    /\ ~Trapped(deserialize_entity(st, c.args[3]))
    /\ deserialize_entity(st, c.args[3]).ret = data

\* C22: a store::set that returns calls the import store.set exactly once,
\* with (type pointer, id pointer, data pointer) in that order, when the two
\* strings and the whole Typed-map graph are allocated and written; a
\* store::set that traps calls no import; and no later step changes a byte of
\* an object that exists, those handed to the host included.
C22_ProgramOrder ==
    [][/\ (last'.op = "store::set" /\ trap' = "none") =>
            /\ imports' = Append(imports, imports'[Len(imports')])
            /\ ctl' = "import"
            /\ imports'[Len(imports')].args = last'.ret
            /\ SetCallWritten(Cur', imports'[Len(imports')],
                              last'.arg[1], last'.arg[2], last'.arg[3])
       /\ (last'.op = "store::set" /\ trap' # "none") => imports' = imports
       /\ trap' = "none" => ObjectBytes(mem') = ObjectBytes(mem)]_vars

\* store.set was called with a two-field entity and has returned: what was
\* passed is still what the host was given.
C22_Witness ==
    /\ ctl = "module" /\ trap = "none"
    /\ last.op = "import_return"
    /\ Len(imports) = 1
    /\ SetCallWritten(Cur, imports[1], str_T, str_a,
                      <<<<str_e, Value_Null>>, <<str_t, Value_Bool(TRUE)>>>>)

\* -------------------------------------------------------------------------
\* Results of imports: 0 is absence
\* -------------------------------------------------------------------------

\* "Qm": the hash handed to ipfs::cat.
str_Qm == <<81, 109>>

\* ipfs::cat(hash), up to the import.
ipfs_cat ==
    /\ Live /\ ctl = "module" /\ Len(imports) < MaxOps
    /\ \E r \in {str_to_asc(Cur, str_Qm)} :
         /\ Commit(r)
         /\ CallImport(r, "ipfs.cat", <<r.ret>>)
         /\ last' = [op |-> "ipfs::cat", arg |-> str_Qm, ret |-> Result(r)]
    /\ UNCHANGED env

\* What ipfs.cat returns: null, or a byte buffer of the host.
IpfsResults ==
    {U(0)} \cup {allocs[i].ptr : i \in {j \in DOMAIN allocs :
                     allocs[j].who = "host" /\ allocs[j].class_id = U(class_id_ARRAY_BUFFER)}}

\* Mutant of ipfs_cat_result: the result is decoded without the test for 0.
ipfs_cat_result_unchecked(st, result_ptr) ==
    Only({IF Trapped(a) THEN a ELSE Ret(a, Some(a.ret)) : a \in {asc_to_bytes(st, result_ptr)}})

\* if result_ptr == 0 { None } else { Some(Bytes::from_vec(asc_to_bytes(..))) }
ipfs_cat_result(st, result_ptr) ==
    IF result_ptr = U(0) THEN Ret(st, None)
    ELSE Only({IF Trapped(a) THEN a ELSE Ret(a, Some(a.ret)) :
                 a \in {asc_to_bytes(st, result_ptr)}})

\* ipfs::cat from the return of the import on.
ipfs_cat_return ==
    /\ Live /\ ctl = "import" /\ imports[Len(imports)].name = "ipfs.cat"
    /\ \E result \in IpfsResults :
         \E r \in {ipfs_cat_result(Cur, result)} :
             /\ Commit(r)
             /\ last' = [op |-> "ipfs::cat return", arg |-> result, ret |-> Result(r)]
    /\ ctl' = "module"
    /\ UNCHANGED <<env, imports>>

\* if result_ptr == 0 { return None; } Some(deserialize_token_array(..))
ethereum_call_result(st, result_ptr) ==
    IF result_ptr = U(0) THEN Ret(st, None)
    ELSE Only({IF Trapped(a) THEN a ELSE Ret(a, Some(a.ret)) :
                 a \in {deserialize_token_array(st, result_ptr)}})

\* ethereum::call from the return of the import on. (What it sends is not
\* modelled: the class ids of its objects are not defined in allocator.rs.)
ethereum_call_return ==
    /\ Live /\ ctl = "module" /\ last.op = "handler"
    /\ \E result \in TokenArrays :
         \E r \in {ethereum_call_result(Cur, result)} :
             /\ Commit(r)
             /\ last' = [op |-> "ethereum::call return", arg |-> result, ret |-> Result(r)]
    /\ UNCHANGED <<env, imports, ctl>>

NextResult ==
    \/ host_build
    \/ HandlerEnter
    \/ store_get
    \/ store_get_return
    \/ ipfs_cat
    \/ ipfs_cat_return
    \/ ethereum_call_return

SpecResult == InitStore /\ [][NextResult]_vars

\* One of the three calls has got the result of its import.
Returned ==
    last.op \in {"store::get return", "ipfs::cat return", "ethereum::call return"}

\* What a result that is not 0 decodes to.
DecodedResult ==
    CASE last.op = "store::get return" -> deserialize_entity(Cur, last.arg).ret
      [] last.op = "ipfs::cat return" ->
           BytesAt(mem, last.arg, Val32(read_rt_size(mem, last.arg)))
      [] last.op = "ethereum::call return" -> deserialize_token_array(Cur, last.arg).ret

\* C23: store::get, ipfs::cat and ethereum::call return None exactly when
\* their import returned 0, without a trap, and Some of the decoded entity,
\* bytes or tokens when it returned a pointer.
C23_NullResultIsAbsent ==
    Returned =>
      /\ last.arg = U(0) => trap = "none" /\ Len(last.ret) = 0
      /\ (last.arg # U(0) /\ trap = "none") =>
           /\ Len(last.ret) = 1
           /\ last.ret[1] = DecodedResult

\* ipfs.cat returned the host's three bytes.
C23_Witness ==
    /\ last.op = "ipfs::cat return"
    /\ trap = "none"
    /\ last.arg # U(0)
    /\ last.ret = Some(<<1, 2, 3>>)

\* -------------------------------------------------------------------------
\* The native build (not(target_arch = "wasm32"))
\* -------------------------------------------------------------------------

\* A native function that is `panic!(..)`.
native_panic(op, arg) ==
    /\ trap' = "panic"
    /\ last' = [op |-> op, arg |-> arg, ret |-> NoPtr]
    /\ UNCHANGED <<env, HEAP_PTR, HEAP_BASE, memory_pages, mem, allocs, ctl, imports>>

\* A native function with an empty body, or one that returns a constant.
native_return(op, arg, ret) ==
    /\ last' = [op |-> op, arg |-> arg, ret |-> ret]
    /\ UNCHANGED <<env, HEAP_PTR, HEAP_BASE, memory_pages, mem, trap, allocs, ctl, imports>>

\* The pointers a native caller can hold: null and any word.
NativePtrs == {U(0), U(1044)}

native_asc_alloc == Live /\ \E rq \in Requests : native_panic("asc_alloc", rq)
native_str_to_asc == Live /\ \E s \in CodecStrings : native_panic("str_to_asc", s)
native_asc_to_string == Live /\ \E p \in NativePtrs : native_panic("asc_to_string", p)
native_bytes_to_asc == Live /\ \E b \in CodecBytes : native_panic("bytes_to_asc", b)
native_asc_to_bytes == Live /\ \E p \in NativePtrs : native_panic("asc_to_bytes", p)
native_store_get == Live /\ \E id \in CodecStrings : native_return("store::get", id, None)
native_store_set ==
    Live /\ \E id \in CodecStrings : \E k \in DOMAIN CodecEntities :
        native_return("store::set", <<id, k>>, NoPtr)
native_store_remove == Live /\ \E id \in CodecStrings : native_return("store::remove", id, NoPtr)
native_log ==
    Live /\ \E level \in 0..4 : \E msg \in CodecStrings :
        native_return("log::log", <<level, msg>>, NoPtr)

NextNative ==
    \/ native_asc_alloc
    \/ native_str_to_asc
    \/ native_asc_to_string
    \/ native_bytes_to_asc
    \/ native_asc_to_bytes
    \/ native_store_get
    \/ native_store_set
    \/ native_store_remove
    \/ native_log

SpecNative == InitStore /\ [][NextNative]_vars

\* The memory operations of the runtime.
MemoryOps == {"asc_alloc", "str_to_asc", "asc_to_string", "bytes_to_asc", "asc_to_bytes"}

\* C26: on the native build asc_alloc, str_to_asc, bytes_to_asc,
\* asc_to_string and asc_to_bytes return normally, and so do store::set,
\* store::remove and log::log, which change no state.
C26_NativeNoOps ==
    /\ last.op \in MemoryOps \cup {"store::set", "store::remove", "log::log"}
         => trap = "none"
    /\ mem = << >> /\ allocs = << >> /\ imports = << >> /\ HEAP_PTR = U(0)

\* -------------------------------------------------------------------------
\* data_source::address and data_source::string_param
\* -------------------------------------------------------------------------

\* "QmXoypizjW3WknFiJnKLwHCnL72vedxjQkDDP1mXWo6uco", a 46-character CID.
Cid ==
    <<81, 109, 88, 111, 121, 112, 105, 122, 106, 87, 51, 87, 107, 110, 70, 105,
      74, 110, 75, 76, 119, 72, 67, 110, 76, 55, 50, 118, 101, 100, 120, 106,
      81, 107, 68, 68, 80, 49, 109, 88, 87, 111, 54, 117, 99, 111>>

\* The identifiers a data source is created with: prefixes of the CID.
CidLengths == {0, 1, 2, 10, 19, 20, 21, 40, 45, 46}
Cids == {SubSeq(Cid, 1, n) : n \in CidLengths}

\* String::from_utf8_lossy on bytes that hold no multi-byte sequence: an
\* ASCII byte is its character, any other byte is U+FFFD.
from_utf8_lossy(bytes) == [i \in 1..Len(bytes) |-> IF bytes[i] < 128 THEN bytes[i] ELSE 65533]

\* address() up to the import dataSource.address.
address ==
    /\ Live /\ ctl = "module" /\ Len(imports) < MaxOps
    /\ CallImport(Cur, "dataSource.address", << >>)
    /\ last' = [op |-> "data_source::address", arg |-> << >>, ret |-> NoPtr]
    /\ UNCHANGED <<env, HEAP_PTR, HEAP_BASE, memory_pages, mem, trap, allocs>>

\* string_param() up to the import: let addr = address();
string_param ==
    /\ Live /\ ctl = "module" /\ Len(imports) < MaxOps
    /\ CallImport(Cur, "dataSource.address", << >>)
    /\ last' = [op |-> "data_source::string_param", arg |-> << >>, ret |-> NoPtr]
    /\ UNCHANGED <<env, HEAP_PTR, HEAP_BASE, memory_pages, mem, trap, allocs>>

\* The host answers dataSource.address with a byte array that holds the
\* identifier's bytes.
host_data_source_address ==
    /\ Live /\ ctl = "import" /\ imports[Len(imports)].name = "dataSource.address"
    /\ last.op \in {"data_source::address", "data_source::string_param"}
    /\ \E cid \in Cids : \E r \in {host_object(Cur, class_id_ARRAY_BUFFER, cid)} :
         /\ Commit(r)
         /\ last' = [op |-> "dataSource.address", arg |-> <<last.op, cid>>,
                     ret |-> Result(r)]
    /\ UNCHANGED <<env, imports, ctl>>

\* Address::from(asc_to_bytes(AscPtr::new(ptr as u32)).as_slice())
address_result(st, ptr) ==
    Only({IF Trapped(a) THEN a ELSE Ret(a, Address_from(a.ret)) :
            a \in {asc_to_bytes(st, ptr)}})

\* String::from_utf8_lossy(addr.as_bytes()).into_owned()
string_param_result(st, ptr) ==
    Only({IF Trapped(a) THEN a ELSE Ret(a, from_utf8_lossy(a.ret)) :
            a \in {address_result(st, ptr)}})

\* address() from the return of the import on.
address_return ==
    /\ Live /\ ctl = "import" /\ last.op = "dataSource.address"
    /\ last.arg[1] = "data_source::address"
    /\ \E r \in {address_result(Cur, last.ret)} :
         /\ Commit(r)
         /\ last' = [op |-> "data_source::address return", arg |-> last.arg[2],
                     ret |-> Result(r)]
    /\ ctl' = "module"
    /\ UNCHANGED <<env, imports>>

\* string_param() from the return of the import on.
string_param_return ==
    /\ Live /\ ctl = "import" /\ last.op = "dataSource.address"
    /\ last.arg[1] = "data_source::string_param"
    /\ \E r \in {string_param_result(Cur, last.ret)} :
         /\ Commit(r)
         /\ last' = [op |-> "data_source::string_param return", arg |-> last.arg[2],
                     ret |-> Result(r)]
    /\ ctl' = "module"
    /\ UNCHANGED <<env, imports>>

NextDataSource ==
    \/ HandlerEnter
    \/ address
    \/ string_param
    \/ host_data_source_address
    \/ address_return
    \/ string_param_return

SpecDataSource == InitStore /\ [][NextDataSource]_vars

\* C27: string_param() returns the whole identifier the data source was
\* created with, whatever its length, when the host's dataSource.address
\* returns the identifier's bytes.
C27_StringParamWhole ==
    (last.op = "data_source::string_param return" /\ trap = "none")
      => last.ret = last.arg

\* -------------------------------------------------------------------------
\* testing::MockContext
\* -------------------------------------------------------------------------

\* BTreeMap::get, contains_key and remove on the sequence of entries in key
\* order (insert is EntityData_set).
RECURSIVE BTreeMap_get(_, _)
BTreeMap_get(map, key) ==
    IF map = << >> THEN None
    ELSE IF Head(map)[1] = key THEN Some(Head(map)[2])
    ELSE BTreeMap_get(Tail(map), key)

BTreeMap_contains_key(map, key) == BTreeMap_get(map, key) # None

RECURSIVE BTreeMap_remove(_, _)
BTreeMap_remove(map, key) ==
    IF map = << >> THEN << >>
    ELSE IF Head(map)[1] = key THEN Tail(map)
    ELSE <<Head(map)>> \o BTreeMap_remove(Tail(map), key)

\* The entity types (E::ENTITY_TYPE) and the ids of a test: "T", "U"; "a", "b".
EntityTypes == {<<84>>, <<85>>}
EntityIds == {<<97>>, <<98>>}

\* EntityData::new()
EntityData_new == << >>

\* self.store.entry(type_name).or_insert_with(BTreeMap::new).insert(id, data)
MockContext_store_run(s, type_name, id) ==
    LET entities == IF BTreeMap_contains_key(s, type_name)
                    THEN BTreeMap_get(s, type_name)[1] ELSE << >>
    IN  EntityData_set(s, type_name, EntityData_set(entities, id, EntityData_new))

\* self.store.get(type_name).and_then(|entities| entities.get(id))
\*     .and_then(|_data| None)
MockContext_load_run(s, type_name, id) ==
    LET entities == BTreeMap_get(s, type_name)
        data == IF entities = None THEN None ELSE BTreeMap_get(entities[1], id)
    IN  IF data = None THEN None ELSE None

MockContext_exists_run(s, type_name, id) ==
    LET entities == BTreeMap_get(s, type_name)
    IN  IF entities = None THEN FALSE ELSE BTreeMap_contains_key(entities[1], id)

\* What the calls on a MockContext leave alone.
MockFrame ==
    UNCHANGED <<heap_base_sym, overflow_checks, align_checks, max_pages, HEAP_PTR,
                HEAP_BASE, memory_pages, mem, trap, allocs, ctl, imports>>

MockContext_store ==
    /\ \E type_name \in EntityTypes : \E id \in EntityIds :
         /\ store' = MockContext_store_run(store, type_name, id)
         /\ last' = [op |-> "MockContext::store", arg |-> <<type_name, id>>, ret |-> NoPtr]
    /\ MockFrame

MockContext_load ==
    /\ \E type_name \in EntityTypes : \E id \in EntityIds :
         last' = [op |-> "MockContext::load", arg |-> <<type_name, id>>,
                  ret |-> MockContext_load_run(store, type_name, id)]
    /\ UNCHANGED store
    /\ MockFrame

MockContext_exists ==
    /\ \E type_name \in EntityTypes : \E id \in EntityIds :
         last' = [op |-> "MockContext::exists", arg |-> <<type_name, id>>,
                  ret |-> MockContext_exists_run(store, type_name, id)]
    /\ UNCHANGED store
    /\ MockFrame

MockContext_clear ==
    /\ \E type_name \in EntityTypes :
         /\ store' = BTreeMap_remove(store, type_name)
         /\ last' = [op |-> "MockContext::clear", arg |-> type_name, ret |-> NoPtr]
    /\ MockFrame

MockContext_clear_all ==
    /\ store' = << >>
    /\ last' = [op |-> "MockContext::clear_all", arg |-> NoPtr, ret |-> NoPtr]
    /\ MockFrame

NextMock ==
    \/ MockContext_store
    \/ MockContext_load
    \/ MockContext_exists
    \/ MockContext_clear
    \/ MockContext_clear_all

SpecMock == InitStore /\ [][NextMock]_vars

\* C28: load::<E>(id) returns Some entity in every state where exists::<E>(id)
\* is true, and None only when no entity of type E with that id is stored.
C28_MockRoundTrip ==
    last.op = "MockContext::load"
      => (last.ret # None <=> MockContext_exists_run(store, last.arg[1], last.arg[2]))

\* C29: for every size, asc_alloc traps or returns p with the whole region
\* [p-20, p+size) between the old and the new cursor, and no later allocation
\* is given bytes of that region.
C29_RegionInsideCursorMove ==
    \A i \in DOMAIN allocs :
        LET a == allocs[i]
        IN  /\ Le32(a.base, a.end)
            /\ ~Ovf32(a.base, U(HEADER_SIZE))
            /\ ~Ovf32(a.ptr, a.size)
            /\ Le32(Add32(a.ptr, a.size), a.end)
            /\ \A j \in DOMAIN allocs :
                 i < j => Le32(Add32(a.ptr, a.size), allocs[j].base)

\* -------------------------------------------------------------------------
\* yogurt deploy (yogurt-cli, commands/deploy.rs)
\* -------------------------------------------------------------------------

\* Data sources, and templates, in a manifest.
MaxSources == 1

\* A file reference of a manifest is <<"local", path>>; format!("/ipfs/{}",
\* hash) is <<"ipfs", file>>, with the uploaded file standing for its hash.
Local(path) == <<"local", path>>
IsLocal(ref) == ref[1] = "local"

\* The "abis" sequences and the "mapping" entries of the manifests; a data
\* source without a mapping is << >>.
AbiLists ==
    {<< >>, <<"abis/A.json">>, <<"abis/A.json", "abis/A.json">>,
     <<"abis/A.json", "abis/B.json">>}
MappingFiles == {<< >>, <<"src/lib.wasm">>, <<"src/template.wasm">>}
Mappings ==
    {<< >>} \cup {<<[abis |-> [i \in DOMAIN a |-> Local(a[i])],
                     file |-> [i \in DOMAIN f |-> Local(f[i])]]>> :
                    a \in AbiLists, f \in MappingFiles}

RECURSIVE SeqsUpTo(_, _)
SeqsUpTo(S, n) ==
    IF n = 0 THEN {<< >>}
    ELSE SeqsUpTo(S, n - 1) \cup {Append(s, x) : s \in SeqsUpTo(S, n - 1), x \in S}

Manifests ==
    [schema : {<< >>, <<Local("schema.graphql")>>},
     dataSources : SeqsUpTo(Mappings, MaxSources),
     templates : SeqsUpTo(Mappings, MaxSources)]

\* HashMap::insert on a sequence of <<key, value>> entries (get and
\* contains_key are the map operators above).
RECURSIVE HashMap_insert(_, _, _)
HashMap_insert(map, key, value) ==
    IF map = << >> THEN <<<<key, value>>>>
    ELSE IF Head(map)[1] = key THEN <<<<key, value>>>> \o Tail(map)
    ELSE <<Head(map)>> \o HashMap_insert(Tail(map), key, value)

\* ipfs.add_file(file), then file_to_ipfs.insert(key, hash). d is the deploy
\* so far: the map and the add_file calls made.
add_file(d, key, file) ==
    [file_to_ipfs |-> HashMap_insert(d.file_to_ipfs, key, file),
     uploads |-> Append(d.uploads, [key |-> key, file |-> file])]

\* for abi in abis: upload the ABI unless its path is already in the map.
RECURSIVE upload_abis(_, _, _)
upload_abis(d, abis, i) ==
    IF i > Len(abis) THEN d
    ELSE upload_abis(IF BTreeMap_contains_key(d.file_to_ipfs, abis[i][2]) THEN d
                     ELSE add_file(d, abis[i][2], abis[i][2]),
                     abis, i + 1)

\* The WASM of a mapping: the built module is uploaded, not the manifest's path.
upload_wasm(d, file) ==
    IF file = << >> \/ BTreeMap_contains_key(d.file_to_ipfs, file[1][2]) THEN d
    ELSE add_file(d, file[1][2], "build/subgraph.wasm")

\* for ds in data_sources: the ABIs, then the WASM.
RECURSIVE upload_data_sources(_, _, _)
upload_data_sources(d, data_sources, i) ==
    IF i > Len(data_sources) THEN d
    ELSE upload_data_sources(
             IF data_sources[i] = << >> THEN d
             ELSE upload_wasm(upload_abis(d, data_sources[i][1].abis, 1),
                              data_sources[i][1].file),
             data_sources, i + 1)

\* The uploads of deploy_to_node: the schema, then the data sources.
upload_files(manifest) ==
    upload_data_sources(
        IF manifest.schema = << >> THEN [file_to_ipfs |-> << >>, uploads |-> << >>]
        ELSE add_file([file_to_ipfs |-> << >>, uploads |-> << >>],
                      manifest.schema[1][2], manifest.schema[1][2]),
        manifest.dataSources, 1)

\* file_to_ipfs.get(path).map(|hash| format!("/ipfs/{}", hash))
\*     .unwrap_or_else(|| path.to_string())
to_ipfs_path(file_to_ipfs, ref) ==
    IF BTreeMap_contains_key(file_to_ipfs, ref[2])
    THEN <<"ipfs", BTreeMap_get(file_to_ipfs, ref[2])[1]>>
    ELSE ref

resolve_mapping(file_to_ipfs, entry) ==
    IF entry = << >> THEN entry
    ELSE <<[abis |-> [i \in DOMAIN entry[1].abis |->
                        to_ipfs_path(file_to_ipfs, entry[1].abis[i])],
            file |-> [i \in DOMAIN entry[1].file |->
                        to_ipfs_path(file_to_ipfs, entry[1].file[i])]]>>

resolve_manifest(manifest, file_to_ipfs) ==
    [schema |-> [i \in DOMAIN manifest.schema |->
                   to_ipfs_path(file_to_ipfs, manifest.schema[i])],
     dataSources |-> [i \in DOMAIN manifest.dataSources |->
                        resolve_mapping(file_to_ipfs, manifest.dataSources[i])],
     templates |-> [i \in DOMAIN manifest.templates |->
                      resolve_mapping(file_to_ipfs, manifest.templates[i])]]

\* The network calls that succeed before one fails: none, the two health
\* checks, the health checks and one upload, or all of them.
CallBudgets == {0, 2, 3, 1000}

\* deploy_to_node: two health checks, the uploads, the resolved manifest's
\* upload, subgraph_create, subgraph_deploy; the first call that fails ends
\* it with Err.
deploy_to_node(manifest, budget) ==
    LET d == upload_files(manifest)
        calls == 2 + Len(d.uploads) + 3
        made == IF budget - 2 < Len(d.uploads)
                THEN (IF budget < 2 THEN 0 ELSE budget - 2) ELSE Len(d.uploads)
    IN  IF budget >= calls
        THEN [status |-> "Ok", uploads |-> d.uploads,
              resolved |-> <<resolve_manifest(manifest, d.file_to_ipfs)>>]
        ELSE [status |-> "Err", uploads |-> SubSeq(d.uploads, 1, made),
              resolved |-> << >>]

deploy ==
    /\ last.op = "none"
    /\ \E manifest \in Manifests : \E budget \in CallBudgets :
         last' = [op |-> "deploy", arg |-> manifest,
                  ret |-> deploy_to_node(manifest, budget)]
    /\ UNCHANGED <<env, HEAP_PTR, HEAP_BASE, memory_pages, mem, trap, allocs, ctl, imports>>

NextDeploy == deploy

SpecDeploy == InitStore /\ [][NextDeploy]_vars

\* The file references of a manifest's mapping entries.
MappingRefs(entries) ==
    UNION {{entries[i][1].abis[j] : j \in DOMAIN entries[i][1].abis}
           \cup {entries[i][1].file[j] : j \in DOMAIN entries[i][1].file} :
             i \in {k \in DOMAIN entries : entries[k] # << >>}}

\* The schema, ABI and mapping file references of a manifest.
FileRefs(manifest) ==
    {manifest.schema[i] : i \in DOMAIN manifest.schema}
    \cup MappingRefs(manifest.dataSources) \cup MappingRefs(manifest.templates)

Deployed == last.op = "deploy" /\ last.ret.status = "Ok"

\* C30: after a deploy that reaches subgraph_deploy every file reference of
\* the resolved manifest, under dataSources and under templates, is the
\* /ipfs/ path of a file uploaded in that deploy, none is a local path, and
\* no manifest path was uploaded twice.
C30_ResolvedManifestIsIpfs ==
    Deployed =>
      /\ \A ref \in FileRefs(last.ret.resolved[1]) :
           /\ ~IsLocal(ref)
           /\ \E u \in DOMAIN last.ret.uploads : last.ret.uploads[u].file = ref[2]
      /\ \A u, v \in DOMAIN last.ret.uploads :
           last.ret.uploads[u].key = last.ret.uploads[v].key => u = v

====
